---- MODULE Spec2Model ----
(***************************************************************************)
(* SEO content generator: the content scorer (src/src/scorer) and the     *)
(* optimisation loop of SEOContentGenerator.generate_content (src/main.py).*)
(*                                                                         *)
(* A text is represented by what the scorer extracts from it for a given   *)
(* keyword: the counts, lengths and flags that BeautifulSoup, the regular  *)
(* expressions, KeywordAnalyzer and ReadabilityChecker return.  Scores are *)
(* integers; rates that the code rounds to two decimals are kept in        *)
(* hundredths; weights are kept in thousandths, so a weighted total is in  *)
(* thousandths of a point and total_score is in hundredths of a point.     *)
(***************************************************************************)
EXTENDS Integers, Sequences, FiniteSets, TLC

VARIABLES
    weights,          \* ContentScorer.weights
    max_iterations,   \* config scoring.max_iterations
    target_score,     \* generate_content argument, hundredths of a point
    competitor_data,  \* result of CompetitorAnalyzer.analyze
    pc,               \* position in generate_content / score
    draft_text,       \* text returned by TextGenerator.generate
    optimized_text,   \* local optimized_text
    score_result,     \* local score_result
    current_score,    \* local current_score, hundredths of a point
    iteration,        \* local iteration
    result,           \* dict returned by generate_content
    report,           \* dict built by ReportGenerator.generate
    saved_text,       \* text written by _save_output
    adopted_text,     \* history: the text whose score is current_score
    revisions,        \* history: calls of TextGenerator.optimize
    cycles,           \* history: completed optimize-then-score cycles
    max_scored,       \* history: highest total_score computed in the run
    first_hit,        \* history: revisions made when a score first met the target
    trend,            \* history: how the revisions changed the score
    stop,             \* history: why the loop ended
    suggestions,      \* local suggestions
    request,          \* history: the arguments of the last call of optimize
    plain_text,       \* the characters of the text an analyzer is given
    soup,             \* the h1 and h2 tags BeautifulSoup finds in the text
    keyword,          \* the characters of the main keyword
    hash_seed,        \* the interpreter's string hash seed
    kw_analysis,      \* result of KeywordAnalyzer.analyze
    readability,      \* result of ReadabilityChecker.check
    totals,           \* the counts a formula is applied to
    returned,         \* history: the results returned for the same arguments
    markup_seen,      \* history: some text of the run contained an element
    scan              \* locals start and positions of _find_keyword_positions

\* the state of the analyzers, which generate_content does not see
analyzerVars == <<plain_text, soup, keyword, hash_seed, kw_analysis,
                  readability, totals, returned>>

vars == <<weights, max_iterations, target_score, competitor_data, pc,
          draft_text, optimized_text, score_result, current_score, iteration,
          result, report, saved_text, adopted_text, revisions, cycles,
          max_scored, first_hit, trend, stop, suggestions, request,
          analyzerVars, markup_seen, scan>>

----------------------------------------------------------------------------
(* Bounds *)

MaxIterationsBound == 5

\* keyword occurrences and tokens of the texts whose density is scored
MaxCount == 10
MaxTotalWords == 250

\* sentences, words and syllables per word of the texts whose readability
\* index is computed
MaxSentences == 3
MaxWords == 8
MaxSyllablesPerWord == 3

\* characters of the texts ReadabilityChecker.check is applied to
MaxChars == 5

\* words and separators of the texts KeywordAnalyzer.analyze is applied to
MaxPieces == 4

\* the distinct words that occur twice in a text, and the words that contain
\* the keyword
MaxFillers == 50
MaxVariants == 11

\* the characters of a text whose offset scan is followed step by step
MaxScanLen == 4

Min(a, b) == IF a <= b THEN a ELSE b
Max(a, b) == IF a >= b THEN a ELSE b

None == "none"

\* a dict without keys, and dict.get(key, default)
EmptyDict == [key \in {} |-> None]

Get(dict, key, default) == IF key \in DOMAIN dict THEN dict[key] ELSE default

\* a local or a result that has not been assigned
Unset == EmptyDict

----------------------------------------------------------------------------
(* ContentScorer.__init__: the weight table *)

DefaultWeights ==
    [keyword_optimization  |-> 200,
     structure_readability |-> 250,
     content_quality       |-> 300,
     technical_seo         |-> 150,
     engagement            |-> 100]

\* a scoring.weights table from config.json
ConfiguredWeights ==
    [keyword_optimization  |-> 200,
     structure_readability |-> 200,
     content_quality       |-> 333,
     technical_seo         |-> 167,
     engagement            |-> 100]

WeightConfigs == {DefaultWeights, ConfiguredWeights}

----------------------------------------------------------------------------
(* ContentScorer._score_keyword_optimization *)

\* target_density: the competitors' average density, 1.5 when missing
TargetDensity(benchmark) ==
    Get(Get(Get(benchmark, "benchmarks", EmptyDict),
            "keyword_density", EmptyDict), "avg", 150)

\* the density tiers laid around the competitors' average
DensityScoreNearTarget(actual_density, target_density) ==
    IF target_density - 50 <= actual_density
       /\ actual_density <= target_density + 150 THEN 40
    ELSE IF (target_density - 100 <= actual_density
             /\ actual_density < target_density - 50)
            \/ (target_density + 150 < actual_density
                /\ actual_density <= target_density + 250) THEN 25
    ELSE 10

\* 1. Haupt-Keyword Dichte; actual_density in hundredths of a percent.
\* target_density is assigned and never read.
DensityScore(actual_density, target_density) ==
    IF 100 <= actual_density /\ actual_density <= 300 THEN 40
    ELSE IF (50 <= actual_density /\ actual_density < 100)
            \/ (300 < actual_density /\ actual_density <= 400) THEN 25
    ELSE 10

\* 2. Keyword in wichtigen Positionen
PositionsScore(text) ==
    (IF text.kw_in_first THEN 10 ELSE 0)
    + (IF text.h1_with_kw >= 1 THEN 10 ELSE 0)
    + (IF text.h2_with_kw >= 2 THEN 10
       ELSE IF text.h2_with_kw = 1 THEN 5 ELSE 0)

\* 3. LSI/Semantische Keywords
LsiScore(lsi_count) ==
    IF lsi_count >= 10 THEN 30
    ELSE IF lsi_count >= 5 THEN 20
    ELSE 10

Percentage(score, max_score) == (score * 10000) \div max_score

\* the marker a detail string starts with: check mark, warning sign, cross
Satisfied  == "satisfied"
Borderline == "borderline"
Deficient  == "deficient"

\* a detail string: its marker and its wording (the numbers the f-strings
\* insert are left out)
Finding(marker, message) == [marker |-> marker, message |-> message]

\* details.append(...) under a condition
Append_If(cond, marker, message) ==
    IF cond THEN <<Finding(marker, message)>> ELSE << >>

CategoryResult(score, details) ==
    [score |-> score, max_score |-> 100, percentage |-> Percentage(score, 100),
     details |-> details]

KeywordDetails(text) ==
    (IF 100 <= text.density /\ text.density <= 300
     THEN <<Finding(Satisfied, "Keyword-Dichte optimal")>>
     ELSE IF (50 <= text.density /\ text.density < 100)
             \/ (300 < text.density /\ text.density <= 400)
     THEN <<Finding(Borderline, "Keyword-Dichte akzeptabel")>>
     ELSE <<Finding(Deficient, "Keyword-Dichte suboptimal")>>)
    \o Append_If(text.kw_in_first, Satisfied, "Keyword im ersten Absatz")
    \o Append_If(text.h1_with_kw >= 1, Satisfied, "Keyword in H1")
    \o Append_If(text.h2_with_kw >= 2, Satisfied, "Keyword in H2-Ueberschriften")
    \o (IF text.lsi_count >= 10
        THEN <<Finding(Satisfied, "semantische Keywords gefunden")>>
        ELSE IF text.lsi_count >= 5
        THEN <<Finding(Borderline, "semantische Keywords (mehr empfohlen)")>>
        ELSE <<Finding(Deficient, "Nur wenige semantische Keywords")>>)

ScoreKeywordOptimization(text, benchmark) ==
    CategoryResult(DensityScore(text.density, TargetDensity(benchmark))
                   + PositionsScore(text)
                   + LsiScore(text.lsi_count),
                   KeywordDetails(text))

----------------------------------------------------------------------------
(* ContentScorer._score_structure_readability *)

\* 1. Ueberschriften-Struktur
HeadingScore(h1_count, h2_count, h3_count) ==
    (IF h1_count = 1 THEN 15 ELSE IF h1_count = 0 THEN 0 ELSE 5)
    + (IF h2_count >= 5 THEN 15 ELSE IF h2_count >= 3 THEN 10 ELSE 5)
    + (IF h3_count >= 3 THEN 10 ELSE IF h3_count >= 2 THEN 7 ELSE 0)

\* 2. Lesbarkeit; flesch_score and avg_sentence_length in hundredths
ReadabilityScore(flesch_score, avg_sentence_length) ==
    (IF flesch_score >= 6000 THEN 20 ELSE IF flesch_score >= 4000 THEN 12 ELSE 5)
    + (IF avg_sentence_length <= 2000 THEN 10
       ELSE IF avg_sentence_length <= 2500 THEN 7 ELSE 3)

\* Absatzlaenge: word_count words in paragraphs non-empty paragraphs
ParagraphScore(paragraphs, word_count) ==
    IF paragraphs > 0 /\ word_count <= 100 * paragraphs THEN 5 ELSE 0

\* 3. Listen und Aufzaehlungen
ListScore(list_count) ==
    IF list_count >= 2 THEN 15 ELSE IF list_count = 1 THEN 10 ELSE 0

\* 4. Formatierung
BoldScore(bold_count) ==
    IF bold_count >= 3 THEN 10 ELSE IF bold_count >= 1 THEN 5 ELSE 0

StructureDetails(text) ==
    (IF text.h1_count = 1 THEN <<Finding(Satisfied, "Eine H1-Ueberschrift")>>
     ELSE IF text.h1_count = 0 THEN <<Finding(Deficient, "Keine H1-Ueberschrift")>>
     ELSE <<Finding(Borderline, "H1-Ueberschriften (nur 1 empfohlen)")>>)
    \o (IF text.h2_count >= 5
        THEN <<Finding(Satisfied, "H2-Ueberschriften (gute Struktur)")>>
        ELSE IF text.h2_count >= 3
        THEN <<Finding(Borderline, "H2-Ueberschriften (mehr empfohlen)")>>
        ELSE <<Finding(Deficient, "Nur wenige H2-Ueberschriften")>>)
    \o Append_If(text.h3_count >= 3, Satisfied, "H3-Ueberschriften")
    \o (IF text.flesch >= 6000 THEN <<Finding(Satisfied, "Gute Lesbarkeit")>>
        ELSE IF text.flesch >= 4000
        THEN <<Finding(Borderline, "Akzeptable Lesbarkeit")>>
        ELSE <<Finding(Deficient, "Schwierige Lesbarkeit")>>)
    \o Append_If(text.avg_sentence_length <= 2000, Satisfied, "Kurze Saetze")
    \o Append_If(text.avg_sentence_length > 2500, Borderline, "Lange Saetze")
    \o Append_If(ParagraphScore(text.paragraphs, text.word_count) = 5,
                 Satisfied, "Gut strukturierte Absaetze")
    \o Append_If(text.list_count >= 2, Satisfied, "Listen/Aufzaehlungen")
    \o Append_If(text.bold_count >= 3, Satisfied,
                 "Wichtige Begriffe hervorgehoben")

ScoreStructureReadability(text) ==
    CategoryResult(HeadingScore(text.h1_count, text.h2_count, text.h3_count)
                   + ReadabilityScore(text.flesch, text.avg_sentence_length)
                   + ParagraphScore(text.paragraphs, text.word_count)
                   + ListScore(text.list_count)
                   + BoldScore(text.bold_count),
                   StructureDetails(text))

----------------------------------------------------------------------------
(* ContentScorer._score_content_quality *)

\* the recommended word count with 0 as the default
TargetWordCountZero(benchmark) ==
    Get(Get(benchmark, "insights", EmptyDict), "recommended_word_count", 0)

\* competitor_data.get('insights', {}).get('recommended_word_count', 1000)
TargetWordCount(benchmark) ==
    Get(Get(benchmark, "insights", EmptyDict), "recommended_word_count", 1000)

\* competitor_data.get('insights', {}).get('common_topics', [])
CommonTopics(benchmark) ==
    Get(Get(benchmark, "insights", EmptyDict), "common_topics", << >>)

\* 1. Textlaenge vs. Konkurrenz
LengthScore(word_count, target_word_count) ==
    IF word_count >= target_word_count THEN 40
    ELSE IF word_count * 10 >= target_word_count * 8 THEN 30
    ELSE IF word_count * 10 >= target_word_count * 6 THEN 20
    ELSE 10

\* 2. Informationstiefe
DepthScore(numbers, complex_words, long_paragraphs) ==
    (IF numbers >= 10 THEN 10 ELSE IF numbers >= 5 THEN 6 ELSE 0)
    + (IF complex_words >= 20 THEN 10 ELSE IF complex_words >= 10 THEN 6 ELSE 0)
    + (IF long_paragraphs >= 8 THEN 10 ELSE IF long_paragraphs >= 5 THEN 6 ELSE 0)

\* 3. Unique Content: uniqueness = unique_words / len(words)
UniqueScore(word_count, unique_words) ==
    IF word_count = 0 THEN 0
    ELSE IF unique_words * 10 >= word_count * 5 THEN 20
    ELSE IF unique_words * 10 >= word_count * 4 THEN 15
    ELSE 10

\* 4. Themenrelevanz: the first ten common topics that occur in the text
CoveredTopics(text, common_topics) ==
    Cardinality({i \in 1..Min(10, Len(common_topics)) :
                    common_topics[i] \in text.topics})

TopicScore(common_topics, covered_topics) ==
    IF Len(common_topics) = 0 THEN 0
    ELSE IF covered_topics * 10 >= 7 * Min(10, Len(common_topics)) THEN 10
    ELSE IF covered_topics * 10 >= 5 * Min(10, Len(common_topics)) THEN 7
    ELSE 4

QualityDetails(text, benchmark) ==
    (IF text.word_count >= TargetWordCount(benchmark)
     THEN <<Finding(Satisfied, "Ausreichende Laenge")>>
     ELSE IF text.word_count * 10 >= TargetWordCount(benchmark) * 8
     THEN <<Finding(Borderline, "Woerter (Ziel)")>>
     ELSE IF text.word_count * 10 >= TargetWordCount(benchmark) * 6
     THEN <<Finding(Borderline, "Zu kurz")>>
     ELSE <<Finding(Deficient, "Deutlich zu kurz")>>)
    \o Append_If(text.numbers >= 10, Satisfied, "Zahlen/Fakten")
    \o Append_If(text.complex_words >= 20, Satisfied, "Fachliche Tiefe erkennbar")
    \o Append_If(text.long_paragraphs >= 8, Satisfied, "Absaetze (gute Gliederung)")
    \o Append_If(UniqueScore(text.word_count, text.unique_words) = 20,
                 Satisfied, "Hohe Wort-Diversitaet")
    \o Append_If(TopicScore(CommonTopics(benchmark),
                            CoveredTopics(text, CommonTopics(benchmark))) = 10,
                 Satisfied, "wichtige Themen abgedeckt")

ScoreContentQuality(text, benchmark) ==
    CategoryResult(LengthScore(text.word_count, TargetWordCount(benchmark))
                   + DepthScore(text.numbers, text.complex_words, text.long_paragraphs)
                   + UniqueScore(text.word_count, text.unique_words)
                   + TopicScore(CommonTopics(benchmark),
                                CoveredTopics(text, CommonTopics(benchmark))),
                   QualityDetails(text, benchmark))

----------------------------------------------------------------------------
(* ContentScorer._score_technical_seo *)

\* 1. Meta-Title
TitleScore(has_title, title_len, title_kw) ==
    IF ~has_title THEN 0
    ELSE (IF 50 <= title_len /\ title_len <= 60 THEN 20
          ELSE IF 40 <= title_len /\ title_len <= 70 THEN 15 ELSE 5)
         + (IF title_kw THEN 10 ELSE 0)

\* 2. Meta-Description
DescriptionScore(has_desc, desc_len, desc_kw) ==
    IF ~has_desc THEN 0
    ELSE (IF 140 <= desc_len /\ desc_len <= 160 THEN 20
          ELSE IF 120 <= desc_len /\ desc_len <= 180 THEN 15 ELSE 5)
         + (IF desc_kw THEN 10 ELSE 0)

\* the alt-text points when no images counts as every image having alt text
AltScoreAllOfNone(images, images_with_alt) ==
    IF images_with_alt * 10 >= images * 9 THEN 25
    ELSE IF images_with_alt * 10 >= images * 7 THEN 18
    ELSE IF images_with_alt * 10 >= images * 5 THEN 10
    ELSE 5

\* 3. Bilder mit Alt-Tags: alt_ratio = images_with_alt / len(images)
AltScore(images, images_with_alt) ==
    IF images = 0 THEN 0
    ELSE IF images_with_alt * 10 >= images * 9 THEN 25
    ELSE IF images_with_alt * 10 >= images * 7 THEN 18
    ELSE IF images_with_alt * 10 >= images * 5 THEN 10
    ELSE 5

\* the container points when a document without containers gets the lower tier
SemanticScoreLenient(semantic_tags) ==
    IF semantic_tags >= 2 THEN 15 ELSE 10

\* 4. HTML-Struktur
SemanticScore(semantic_tags) ==
    IF semantic_tags >= 2 THEN 15 ELSE IF semantic_tags >= 1 THEN 10 ELSE 0

TechnicalDetails(text) ==
    (IF ~text.has_title THEN <<Finding(Deficient, "Kein Title-Tag")>>
     ELSE (IF 50 <= text.title_len /\ text.title_len <= 60
           THEN <<Finding(Satisfied, "Title optimal")>>
           ELSE IF 40 <= text.title_len /\ text.title_len <= 70
           THEN <<Finding(Borderline, "Title akzeptabel")>>
           ELSE <<Finding(Deficient, "Title-Laenge suboptimal")>>)
          \o Append_If(text.title_kw, Satisfied, "Keyword im Title"))
    \o (IF ~text.has_desc THEN <<Finding(Deficient, "Keine Meta-Description")>>
        ELSE (IF 140 <= text.desc_len /\ text.desc_len <= 160
              THEN <<Finding(Satisfied, "Meta-Description optimal")>>
              ELSE IF 120 <= text.desc_len /\ text.desc_len <= 180
              THEN <<Finding(Borderline, "Meta-Description akzeptabel")>>
              ELSE << >>)
             \o Append_If(text.desc_kw, Satisfied, "Keyword in Meta-Description"))
    \o Append_If(AltScore(text.images, text.images_with_alt) = 25,
                 Satisfied, "Bilder mit Alt-Tags")
    \o Append_If(AltScore(text.images, text.images_with_alt) = 5,
                 Deficient, "Nur wenige Bilder mit Alt-Tags")
    \o Append_If(text.semantic_tags >= 2, Satisfied, "Semantisches HTML5")

ScoreTechnicalSeo(text) ==
    CategoryResult(TitleScore(text.has_title, text.title_len, text.title_kw)
                   + DescriptionScore(text.has_desc, text.desc_len, text.desc_kw)
                   + AltScore(text.images, text.images_with_alt)
                   + SemanticScore(text.semantic_tags),
                   TechnicalDetails(text))

----------------------------------------------------------------------------
(* ContentScorer._score_engagement *)

\* 1. Call-to-Actions: cta_count of the eight patterns match
CtaScore(cta_count) ==
    IF cta_count >= 3 THEN 40 ELSE IF cta_count >= 1 THEN 25 ELSE 0

\* the media criterion when three images earn 30 points
MediaScoreHigh(images, videos) ==
    (IF images >= 3 THEN 30 ELSE IF images >= 1 THEN 10 ELSE 0)
    + (IF videos >= 1 THEN 10 ELSE 0)

\* 2. Multimediale Elemente
MediaScore(images, videos) ==
    (IF images >= 3 THEN 20 ELSE IF images >= 1 THEN 10 ELSE 0)
    + (IF videos >= 1 THEN 10 ELSE 0)

\* 3. Links
LinkScore(links) ==
    IF links >= 5 THEN 20 ELSE IF links >= 2 THEN 12 ELSE 0

\* 4. Interaktive Elemente
InteractiveScore(buttons, forms) ==
    IF buttons + forms >= 1 THEN 10 ELSE 0

EngagementDetails(text) ==
    (IF text.cta_count >= 3 THEN <<Finding(Satisfied, "Call-to-Actions")>>
     ELSE IF text.cta_count >= 1
     THEN <<Finding(Borderline, "Call-to-Actions (mehr empfohlen)")>>
     ELSE << >>)
    \o Append_If(text.images >= 3, Satisfied, "Bilder")
    \o Append_If(text.videos >= 1, Satisfied, "Video(s)")
    \o Append_If(text.links >= 5, Satisfied, "Links")
    \o Append_If(text.buttons + text.forms >= 1, Satisfied,
                 "Interaktive Elemente vorhanden")

ScoreEngagement(text) ==
    CategoryResult(CtaScore(text.cta_count)
                   + MediaScore(text.images, text.videos)
                   + LinkScore(text.links)
                   + InteractiveScore(text.buttons, text.forms),
                   EngagementDetails(text))

----------------------------------------------------------------------------
(* ContentScorer.score and ContentScorer._get_grade *)

Categories ==
    <<"keyword_optimization", "structure_readability", "content_quality",
      "technical_seo", "engagement">>

\* the total when the engagement term is left out
WeightedTotalWithoutEngagement(k, s, q, t, e, w) ==
    k.score * w.keyword_optimization
    + s.score * w.structure_readability
    + q.score * w.content_quality
    + t.score * w.technical_seo

\* total_score before rounding, in thousandths of a point
WeightedTotal(k, s, q, t, e, w) ==
    k.score * w.keyword_optimization
    + s.score * w.structure_readability
    + q.score * w.content_quality
    + t.score * w.technical_seo
    + e.score * w.engagement

\* round(x, 2) of x thousandths, in hundredths.  A float that lies halfway
\* between two hundredths in decimal is rounded by its binary value, so
\* either neighbour can result.
Round2(x) ==
    IF x % 10 < 5 THEN {x \div 10}
    ELSE IF x % 10 > 5 THEN {x \div 10 + 1}
    ELSE {x \div 10, x \div 10 + 1}

\* _get_grade, score in thousandths of a point
GetGrade(score) ==
    IF score >= 90000 THEN "A+ (Exzellent)"
    ELSE IF score >= 85000 THEN "A (Sehr gut)"
    ELSE IF score >= 75000 THEN "B (Gut)"
    ELSE IF score >= 65000 THEN "C (Befriedigend)"
    ELSE IF score >= 50000 THEN "D (Ausreichend)"
    ELSE "F (Ungenuegend)"

\* the ScoreResults score(text, keyword, competitor_data) can return
Score(text, benchmark, w) ==
    LET keyword_score    == ScoreKeywordOptimization(text, benchmark)
        structure_score  == ScoreStructureReadability(text)
        quality_score    == ScoreContentQuality(text, benchmark)
        technical_score  == ScoreTechnicalSeo(text)
        engagement_score == ScoreEngagement(text)
        total_score      == WeightedTotal(keyword_score, structure_score,
                                          quality_score, technical_score,
                                          engagement_score, w)
    IN  {[total_score           |-> rounded,
          keyword_optimization  |-> keyword_score,
          structure_readability |-> structure_score,
          content_quality       |-> quality_score,
          technical_seo         |-> technical_score,
          engagement            |-> engagement_score,
          grade                 |-> GetGrade(total_score)]
         : rounded \in Round2(total_score)}

----------------------------------------------------------------------------
(* ContentScorer.get_improvement_suggestions *)

\* every detail taken as a suggestion
IsSuggestionAny(detail) == TRUE

\* detail.startswith(cross) or detail.startswith(warning sign)
IsSuggestion(detail) ==
    detail.marker = Deficient \/ detail.marker = Borderline

\* if percentage < 70
BelowThreshold(percentage) == percentage < 7000

\* the for loop over the categories, from the i-th on
RECURSIVE SuggestionsFrom(_, _)
SuggestionsFrom(sr, i) ==
    IF i > Len(Categories) THEN << >>
    ELSE LET cat_data   == Get(sr, Categories[i], EmptyDict)
             percentage == Get(cat_data, "percentage", 0)
         IN  (IF BelowThreshold(percentage)
              THEN SelectSeq(Get(cat_data, "details", << >>), IsSuggestion)
              ELSE << >>)
             \o SuggestionsFrom(sr, i + 1)

GetImprovementSuggestions(sr) == SuggestionsFrom(sr, 1)

----------------------------------------------------------------------------
(* Texts and benchmarks the scorer is applied to *)

\* the empty string
EmptyText ==
    [density |-> 0, kw_in_first |-> FALSE, lsi_count |-> 0,
     h1_count |-> 0, h1_with_kw |-> 0, h2_count |-> 0, h2_with_kw |-> 0,
     h3_count |-> 0, flesch |-> 0, avg_sentence_length |-> 0,
     paragraphs |-> 0, long_paragraphs |-> 0, list_count |-> 0, bold_count |-> 0,
     word_count |-> 0, unique_words |-> 0, numbers |-> 0, complex_words |-> 0,
     topics |-> {},
     has_title |-> FALSE, title_len |-> 0, title_kw |-> FALSE,
     has_desc |-> FALSE, desc_len |-> 0, desc_kw |-> FALSE,
     images |-> 0, images_with_alt |-> 0, semantic_tags |-> 0,
     cta_count |-> 0, videos |-> 0, links |-> 0, buttons |-> 0, forms |-> 0]

\* a short plain text stuffed with the keyword: one long paragraph, long
\* sentences, few distinct words, no markup
PoorText ==
    [EmptyText EXCEPT !.density = 401, !.flesch = 3999,
                      !.avg_sentence_length = 2501, !.paragraphs = 1,
                      !.long_paragraphs = 1, !.word_count = 599,
                      !.unique_words = 239]

\* a complete HTML page that meets every criterion
RichText ==
    [density |-> 150, kw_in_first |-> TRUE, lsi_count |-> 10,
     h1_count |-> 1, h1_with_kw |-> 1, h2_count |-> 5, h2_with_kw |-> 2,
     h3_count |-> 3, flesch |-> 6000, avg_sentence_length |-> 2000,
     paragraphs |-> 10, long_paragraphs |-> 8, list_count |-> 2, bold_count |-> 3,
     word_count |-> 1000, unique_words |-> 500, numbers |-> 10, complex_words |-> 20,
     topics |-> 1..7,
     has_title |-> TRUE, title_len |-> 50, title_kw |-> TRUE,
     has_desc |-> TRUE, desc_len |-> 140, desc_kw |-> TRUE,
     images |-> 3, images_with_alt |-> 3, semantic_tags |-> 2,
     cta_count |-> 3, videos |-> 1, links |-> 5, buttons |-> 1, forms |-> 0]

\* the same page when three of its ten images lack alt text and it has no
\* semantic containers
GoodText ==
    [RichText EXCEPT !.images = 10, !.images_with_alt = 7, !.semantic_tags = 0]

\* what every text satisfies, by the way the metrics are extracted
WellFormed(text) ==
    /\ text.h1_with_kw <= text.h1_count
    /\ text.h2_with_kw <= text.h2_count
    /\ text.images_with_alt <= text.images
    /\ (text.kw_in_first \/ text.h1_with_kw > 0 \/ text.h2_with_kw > 0 \/ text.title_kw)
          => text.density > 0
    /\ text.word_count = 0 =>
          /\ text.density = 0 /\ text.lsi_count = 0 /\ text.flesch = 0
          /\ text.avg_sentence_length = 0 /\ text.numbers = 0
          /\ text.cta_count = 0 /\ text.topics = {}
    /\ (text.paragraphs > 0) = (text.word_count > 0)
    /\ (text.unique_words > 0) = (text.word_count > 0)
    /\ text.long_paragraphs <= text.paragraphs
    /\ text.unique_words <= text.word_count
    /\ text.complex_words <= text.word_count
    /\ text.numbers <= text.word_count
    /\ text.has_title \/ (text.title_len = 0 /\ ~text.title_kw)
    /\ text.has_desc \/ (text.desc_len = 0 /\ ~text.desc_kw)
    /\ text.title_kw => text.title_len > 0
    /\ text.desc_kw => text.desc_len > 0
    /\ text.has_desc => text.desc_len > 0

HeadingPairs(counts) ==
    {p \in counts \X (0..2) : p[2] <= p[1]}

\* base with the keyword placement, the headings and the related terms changed
KeywordTexts(base) ==
    {[base EXCEPT !.density = d, !.kw_in_first = f, !.lsi_count = l,
                  !.h1_count = h1[1], !.h1_with_kw = h1[2],
                  !.h2_count = h2[1], !.h2_with_kw = h2[2]] :
        d \in {0, 49, 50, 99, 100, 300, 301, 400, 401}, f \in BOOLEAN,
        l \in {0, 4, 5, 9, 10, 20},
        h1 \in HeadingPairs(0..2), h2 \in HeadingPairs({0, 1, 3, 5})}

\* base with the structure and the readability changed
StructureTexts(base) ==
    {[base EXCEPT !.h1_count = h1, !.h1_with_kw = Min(@, h1),
                  !.h2_count = h2, !.h2_with_kw = Min(@, h2),
                  !.h3_count = h3, !.flesch = fl, !.avg_sentence_length = asl,
                  !.paragraphs = pa, !.long_paragraphs = Min(@, pa),
                  !.list_count = li, !.bold_count = bo] :
        h1 \in 0..2, h2 \in {0, 3, 5}, h3 \in {0, 2, 3},
        fl \in {3999, 4000, 6000}, asl \in {2000, 2500, 2501},
        pa \in {1, (base.word_count + 99) \div 100}, li \in 0..2,
        bo \in {0, 1, 3}}

\* base with the length, the depth, the diversity and the topics changed
QualityTexts(base) ==
    {[base EXCEPT !.word_count = wc, !.unique_words = (wc * u + 9) \div 10,
                  !.numbers = n, !.complex_words = c,
                  !.long_paragraphs = lp, !.paragraphs = Max(@, lp),
                  !.topics = 1..tp] :
        wc \in {599, 600, 799, 800, 999, 1000}, u \in {3, 4, 5},
        n \in {0, 5, 10}, c \in {0, 10, 20}, lp \in {1, 5, 8},
        tp \in {0, 4, 5, 7}}

TitleLens == {39, 40, 50, 60, 61, 70, 71}
DescLens  == {119, 120, 140, 160, 161, 180, 181}

MetaTags(lens) ==
    {<<FALSE, 0, FALSE>>} \cup ({TRUE} \X lens \X BOOLEAN)

ImagePairs == {<<0, 0>>, <<1, 0>>, <<2, 1>>, <<3, 3>>, <<10, 7>>, <<10, 9>>}

\* base with the title, the description, the images and the containers changed
TechnicalTexts(base) ==
    {[base EXCEPT !.has_title = ti[1], !.title_len = ti[2], !.title_kw = ti[3],
                  !.has_desc = de[1], !.desc_len = de[2], !.desc_kw = de[3],
                  !.images = im[1], !.images_with_alt = im[2],
                  !.semantic_tags = se] :
        ti \in MetaTags(TitleLens), de \in MetaTags(DescLens),
        im \in ImagePairs, se \in 0..2}

\* base with the calls to action, media, links and controls changed
EngagementTexts(base) ==
    {[base EXCEPT !.cta_count = ct, !.images = im, !.images_with_alt = Min(@, im),
                  !.videos = vi, !.links = li, !.buttons = bf[1], !.forms = bf[2]] :
        ct \in {0, 1, 3}, im \in {0, 1, 3}, vi \in 0..1, li \in {0, 2, 5},
        bf \in {<<0, 0>>, <<1, 0>>, <<0, 1>>}}

\* a text in which BeautifulSoup finds no element
MarkupFree(text) ==
    /\ text.h1_count = 0 /\ text.h2_count = 0 /\ text.h3_count = 0
    /\ text.list_count = 0 /\ text.bold_count = 0
    /\ ~text.has_title /\ ~text.has_desc
    /\ text.images = 0 /\ text.semantic_tags = 0
    /\ text.videos = 0 /\ text.links = 0
    /\ text.buttons = 0 /\ text.forms = 0

\* a plain text that meets every criterion that needs no markup
PlainArticle ==
    [EmptyText EXCEPT !.density = 150, !.kw_in_first = TRUE, !.lsi_count = 10,
                      !.flesch = 6000, !.avg_sentence_length = 2000,
                      !.paragraphs = 10, !.long_paragraphs = 8,
                      !.word_count = 1000, !.unique_words = 500,
                      !.numbers = 10, !.complex_words = 20,
                      !.topics = 1..7, !.cta_count = 3]

\* the plain article with its wording changed
MarkupFreeTexts ==
    {[PlainArticle EXCEPT !.density = d, !.kw_in_first = f, !.lsi_count = l,
                          !.flesch = fl, !.avg_sentence_length = asl,
                          !.word_count = wc, !.unique_words = wc \div 2,
                          !.topics = 1..tp, !.cta_count = ct] :
        d \in {99, 100, 300, 401}, f \in BOOLEAN, l \in {4, 10},
        fl \in {3999, 6000}, asl \in {2000, 2501}, wc \in {599, 800, 1000},
        tp \in {0, 7}, ct \in {0, 1, 3}}

\* the texts the groups are varied around
BaseTexts == {PoorText, GoodText, RichText}

\* the texts score() is applied to: the empty text, and every base with one
\* group of metrics changed
IsText(text) ==
    /\ \/ text = EmptyText
       \/ text \in MarkupFreeTexts
       \/ \E base \in BaseTexts :
             \/ text \in KeywordTexts(base)
             \/ text \in StructureTexts(base)
             \/ text \in QualityTexts(base)
             \/ text \in TechnicalTexts(base)
             \/ text \in EngagementTexts(base)
    /\ WellFormed(text)

\* competitor_data as far as generate_content and the scorer read it
FullAnalysis ==
    [competitors |-> 5,
     benchmarks |-> [keyword_density |-> [avg |-> 250]],
     insights |-> [recommended_word_count |-> 1000,
                   common_topics |-> <<1, 2, 3, 4, 5, 6, 7, 8, 9, 10>>]]

\* CompetitorAnalyzer._empty_analysis
EmptyAnalysis == [competitors |-> 0, insights |-> EmptyDict]

\* what CompetitorAnalyzer.analyze returns
Analyses == {FullAnalysis, EmptyAnalysis, EmptyDict}

\* analyses that lack the word count, the topics, or every insight
PartialAnalyses ==
    {[competitors |-> 5,
      insights |-> [common_topics |-> <<1, 2, 3, 4, 5, 6, 7, 8, 9, 10>>]],
     [competitors |-> 5, insights |-> [recommended_word_count |-> 800]],
     EmptyAnalysis}

\* the competitor_data score() is called with
Benchmarks == {FullAnalysis, EmptyDict} \cup PartialAnalyses

\* an article with headings and one video, without head tags, images or links
ArticleText ==
    [RichText EXCEPT !.has_title = FALSE, !.title_len = 0, !.title_kw = FALSE,
                     !.has_desc = FALSE, !.desc_len = 0, !.desc_kw = FALSE,
                     !.images = 0, !.images_with_alt = 0, !.semantic_tags = 0,
                     !.cta_count = 0, !.links = 0, !.buttons = 0]

\* the texts TextGenerator returns in a run: articles with elements, and
\* Markdown texts, in which BeautifulSoup finds no element
RunTexts ==
    {[ArticleText EXCEPT !.density = d, !.lsi_count = l, !.kw_in_first = p,
                         !.h1_with_kw = IF p THEN 1 ELSE 0,
                         !.h2_with_kw = IF p THEN 1 ELSE 0] :
        d \in {50, 150, 401}, l \in {0, 5, 10}, p \in BOOLEAN}
    \cup {[PlainArticle EXCEPT !.lsi_count = l, !.cta_count = ct] :
             l \in {5, 10}, ct \in {1, 3}}

TargetScores == {6100, 6500, 7500}

----------------------------------------------------------------------------
(* SEOContentGenerator.generate_content *)

\* the loop condition without the iteration bound
LoopGuardUnbounded(cs, ts, it, mi) == cs < ts

\* the loop condition with the bound off by one
LoopGuardStrict(cs, ts, it, mi) == cs < ts /\ it < mi

\* while current_score < target_score and iteration <= max_iterations
LoopGuard(cs, ts, it, mi) == cs < ts /\ it <= mi

\* the break taken only on a strictly lower score
NoImprovementStrict(new_score, cs) == new_score < cs

\* the break taken on the wrong side of the comparison
NoImprovementReversed(new_score, cs) == new_score >= cs

\* if new_score <= current_score: break
NoImprovement(new_score, cs) == new_score <= cs

\* iterations=iteration - 1
IterationsUsed(it) == it - 1

\* how a cycle that took the score from cs to new_score changes the trend
NextTrend(tr, cs, new_score) ==
    LET step == IF new_score = cs THEN "flat"
                ELSE IF new_score = cs + 500 THEN "plus5"
                ELSE IF new_score > cs THEN "up"
                ELSE "down"
    IN  IF tr = None \/ tr = step THEN step
        ELSE IF tr \in {"plus5", "up"} /\ step \in {"plus5", "up"} THEN "up"
        ELSE "mixed"

Init ==
    /\ weights \in WeightConfigs
    /\ max_iterations \in 0..MaxIterationsBound
    /\ target_score \in TargetScores
    /\ competitor_data = Unset
    /\ pc = "phase1"
    /\ draft_text = Unset
    /\ optimized_text = Unset
    /\ score_result = Unset
    /\ current_score = 0
    /\ iteration = 0
    /\ result = Unset
    /\ report = Unset
    /\ saved_text = Unset
    /\ adopted_text = Unset
    /\ revisions = 0
    /\ cycles = 0
    /\ max_scored = 0
    /\ first_hit = -1
    /\ trend = None
    /\ stop = None
    /\ suggestions = << >>
    /\ request = Unset
    /\ plain_text = << >>
    /\ soup = Unset
    /\ keyword = << >>
    /\ hash_seed = << >>
    /\ kw_analysis = Unset
    /\ readability = Unset
    /\ totals = Unset
    /\ returned = << >>
    /\ markup_seen = FALSE
    /\ scan = Unset

\* the check that lets an analysis without competitors pass
NoCompetitorDataOnlyEmpty(data) == data = EmptyDict

\* not competitor_data or not competitor_data.get('competitors')
NoCompetitorData(data) ==
    data = EmptyDict \/ Get(data, "competitors", 0) = 0

\* optimize called with the draft instead of the current text
RevisionInputDraft(draft, optimized) == draft

\* the text passed to optimize
RevisionInput(draft, optimized) == optimized

\* Phase 1: competitor analysis; without competitors the run ends
AnalyzeCompetitors ==
    /\ pc = "phase1"
    /\ \E data \in Analyses :
          /\ competitor_data' = data
          /\ IF NoCompetitorData(data)
             THEN /\ result' = [success |-> FALSE]
                  /\ pc' = "failed"
             ELSE /\ result' = result
                  /\ pc' = "phase2"
    /\ UNCHANGED <<weights, max_iterations, target_score, draft_text,
                   optimized_text, score_result, current_score, iteration,
                   report, saved_text, adopted_text, revisions, cycles,
                   max_scored, first_hit, trend, stop>>
    /\ UNCHANGED <<suggestions, request, analyzerVars>>
    /\ UNCHANGED <<markup_seen, scan>>

\* Phases 2 and 3: the draft and its score, then the loop's initial values
GenerateDraft ==
    /\ pc = "phase2"
    /\ \E text \in RunTexts :
       \E sr \in Score(text, competitor_data, weights) :
          /\ draft_text' = text
          /\ markup_seen' = ~MarkupFree(text)
          /\ score_result' = sr
          /\ current_score' = sr.total_score
          /\ optimized_text' = text
          /\ adopted_text' = text
          /\ max_scored' = sr.total_score
          /\ first_hit' = IF sr.total_score >= target_score THEN 0 ELSE -1
    /\ iteration' = 1
    /\ pc' = "loop"
    /\ UNCHANGED <<weights, max_iterations, target_score, competitor_data,
                   result, report, saved_text, revisions, cycles, trend, stop>>
    /\ UNCHANGED <<suggestions, request, analyzerVars>>
    /\ UNCHANGED scan

\* TextGenerator._call_openai raises; main() prints the error and exits
GenerateFails ==
    /\ pc = "phase2"
    /\ pc' = "aborted"
    /\ UNCHANGED <<weights, max_iterations, target_score, competitor_data,
                   draft_text, optimized_text, score_result, current_score,
                   iteration, result, report, saved_text, adopted_text,
                   revisions, cycles, max_scored, first_hit, trend, stop>>
    /\ UNCHANGED <<suggestions, request, analyzerVars>>
    /\ UNCHANGED <<markup_seen, scan>>

\* Phase 4, first half: the loop condition holds and optimize returns a text
Optimize ==
    /\ pc = "loop"
    /\ LoopGuard(current_score, target_score, iteration, max_iterations)
    /\ suggestions' = GetImprovementSuggestions(score_result)
    /\ request' = [text        |-> RevisionInput(draft_text, optimized_text),
                   suggestions |-> suggestions']
    /\ \E text \in RunTexts :
          /\ optimized_text' = text
          /\ markup_seen' = (markup_seen \/ ~MarkupFree(text))
    /\ revisions' = revisions + 1
    /\ pc' = "rescore"
    /\ UNCHANGED <<weights, max_iterations, target_score, competitor_data,
                   draft_text, score_result, current_score, iteration, result,
                   report, saved_text, adopted_text, cycles, max_scored,
                   first_hit, trend, stop>>
    /\ UNCHANGED analyzerVars
    /\ UNCHANGED scan

\* Phase 4: optimize raises; the exception leaves generate_content
OptimizeFails ==
    /\ pc = "loop"
    /\ LoopGuard(current_score, target_score, iteration, max_iterations)
    /\ suggestions' = GetImprovementSuggestions(score_result)
    /\ request' = [text        |-> RevisionInput(draft_text, optimized_text),
                   suggestions |-> suggestions']
    /\ revisions' = revisions + 1
    /\ pc' = "aborted"
    /\ UNCHANGED <<weights, max_iterations, target_score, competitor_data,
                   draft_text, optimized_text, score_result, current_score,
                   iteration, result, report, saved_text, adopted_text, cycles,
                   max_scored, first_hit, trend, stop>>
    /\ UNCHANGED analyzerVars
    /\ UNCHANGED <<markup_seen, scan>>

\* Phase 4, second half: score the revision, break or adopt it
Rescore ==
    /\ pc = "rescore"
    /\ \E sr \in Score(optimized_text, competitor_data, weights) :
          /\ score_result' = sr
          /\ max_scored' = Max(max_scored, sr.total_score)
          /\ trend' = NextTrend(trend, current_score, sr.total_score)
          /\ first_hit' = IF first_hit = -1 /\ sr.total_score >= target_score
                          THEN revisions ELSE first_hit
          /\ IF NoImprovement(sr.total_score, current_score)
             THEN /\ stop' = "stagnant"
                  /\ pc' = "phase5"
                  /\ UNCHANGED <<current_score, iteration, adopted_text>>
             ELSE /\ current_score' = sr.total_score
                  /\ iteration' = iteration + 1
                  /\ adopted_text' = optimized_text
                  /\ pc' = "loop"
                  /\ stop' = stop
    /\ cycles' = cycles + 1
    /\ UNCHANGED <<weights, max_iterations, target_score, competitor_data,
                   draft_text, optimized_text, result, report, saved_text,
                   revisions>>
    /\ UNCHANGED <<suggestions, request, analyzerVars>>
    /\ UNCHANGED <<markup_seen, scan>>

\* Phase 4: the loop condition is false
ExitLoop ==
    /\ pc = "loop"
    /\ ~LoopGuard(current_score, target_score, iteration, max_iterations)
    /\ stop' = IF current_score >= target_score THEN "target_met" ELSE "exhausted"
    /\ pc' = "phase5"
    /\ UNCHANGED <<weights, max_iterations, target_score, competitor_data,
                   draft_text, optimized_text, score_result, current_score,
                   iteration, result, report, saved_text, adopted_text,
                   revisions, cycles, max_scored, first_hit, trend>>
    /\ UNCHANGED <<suggestions, request, analyzerVars>>
    /\ UNCHANGED <<markup_seen, scan>>

\* Phases 5 to 8: meta data, images, HTML, the saved output, the report and
\* the returned dict
Finish ==
    /\ pc = "phase5"
    /\ saved_text' = optimized_text
    /\ report' = [iterations  |-> IterationsUsed(iteration),
                  final_score |-> score_result.total_score,
                  grade       |-> score_result.grade,
                  word_count  |-> optimized_text.word_count]
    /\ result' = [success         |-> TRUE,
                  final_score     |-> current_score,
                  target_score    |-> target_score,
                  iterations      |-> IterationsUsed(iteration),
                  word_count      |-> optimized_text.word_count,
                  score_breakdown |-> score_result]
    /\ pc' = "done"
    /\ UNCHANGED <<weights, max_iterations, target_score, competitor_data,
                   draft_text, optimized_text, score_result, current_score,
                   iteration, adopted_text, revisions, cycles, max_scored,
                   first_hit, trend, stop>>
    /\ UNCHANGED <<suggestions, request, analyzerVars>>
    /\ UNCHANGED <<markup_seen, scan>>

\* Phase 5: MetaGenerator._call_openai raises
MetaDataFails ==
    /\ pc = "phase5"
    /\ pc' = "aborted"
    /\ UNCHANGED <<weights, max_iterations, target_score, competitor_data,
                   draft_text, optimized_text, score_result, current_score,
                   iteration, result, report, saved_text, adopted_text,
                   revisions, cycles, max_scored, first_hit, trend, stop>>
    /\ UNCHANGED <<suggestions, request, analyzerVars>>
    /\ UNCHANGED <<markup_seen, scan>>

Next ==
    \/ AnalyzeCompetitors
    \/ GenerateDraft
    \/ GenerateFails
    \/ Optimize
    \/ OptimizeFails
    \/ Rescore
    \/ ExitLoop
    \/ Finish
    \/ MetaDataFails

Spec == Init /\ [][Next]_vars

\* generate_content runs to its end: every step that can be taken is taken
FairSpec == Spec /\ WF_vars(Next)

----------------------------------------------------------------------------
(* ContentScorer.score applied to one text *)

ScorerInit ==
    /\ weights \in WeightConfigs
    /\ competitor_data \in Benchmarks
    /\ IsText(optimized_text)
    /\ pc = "score"
    /\ max_iterations = 0
    /\ target_score = 0
    /\ draft_text = Unset
    /\ score_result = Unset
    /\ current_score = 0
    /\ iteration = 0
    /\ result = Unset
    /\ report = Unset
    /\ saved_text = Unset
    /\ adopted_text = Unset
    /\ revisions = 0
    /\ cycles = 0
    /\ max_scored = 0
    /\ first_hit = -1
    /\ trend = None
    /\ stop = None
    /\ suggestions = << >>
    /\ request = Unset
    /\ plain_text = << >>
    /\ soup = Unset
    /\ keyword = << >>
    /\ hash_seed = << >>
    /\ kw_analysis = Unset
    /\ readability = Unset
    /\ totals = Unset
    /\ returned = << >>
    /\ markup_seen = FALSE
    /\ scan = Unset

ScoreText ==
    /\ pc = "score"
    /\ score_result' \in Score(optimized_text, competitor_data, weights)
    /\ pc' = "scored"
    /\ UNCHANGED <<weights, max_iterations, target_score, competitor_data,
                   draft_text, optimized_text, current_score, iteration,
                   result, report, saved_text, adopted_text, revisions, cycles,
                   max_scored, first_hit, trend, stop>>
    /\ UNCHANGED <<suggestions, request, analyzerVars>>
    /\ UNCHANGED <<markup_seen, scan>>

\* get_improvement_suggestions applied to the ScoreResult
Suggest ==
    /\ pc = "scored"
    /\ suggestions' = GetImprovementSuggestions(score_result)
    /\ pc' = "suggested"
    /\ UNCHANGED <<weights, max_iterations, target_score, competitor_data,
                   draft_text, optimized_text, score_result, current_score,
                   iteration, result, report, saved_text, adopted_text,
                   revisions, cycles, max_scored, first_hit, trend, stop>>
    /\ UNCHANGED <<request, analyzerVars>>
    /\ UNCHANGED <<markup_seen, scan>>

ScorerNext ==
    \/ ScoreText
    \/ Suggest

ScorerSpec == ScorerInit /\ [][ScorerNext]_vars

----------------------------------------------------------------------------
(* KeywordAnalyzer._analyze_main_keyword and the density criterion *)

\* round(n / d, 2) for a quotient kept in hundredths: the nearest integer to
\* n / d.  A quotient that lies halfway is rounded by its binary value, so
\* either neighbour can result.
RoundDiv(n, d) ==
    IF 2 * (n % d) < d THEN {n \div d}
    ELSE IF 2 * (n % d) > d THEN {n \div d + 1}
    ELSE {n \div d, n \div d + 1}

\* round((count / total_words * 100) if total_words > 0 else 0, 2), in
\* hundredths of a percent
Density(count, total_words) ==
    IF total_words > 0 THEN RoundDiv(count * 10000, total_words) ELSE {0}

\* generate_content is not running
NoRun ==
    /\ weights = DefaultWeights
    /\ competitor_data = EmptyDict
    /\ max_iterations = 0
    /\ target_score = 0
    /\ draft_text = Unset
    /\ optimized_text = Unset
    /\ score_result = Unset
    /\ current_score = 0
    /\ iteration = 0
    /\ result = Unset
    /\ report = Unset
    /\ saved_text = Unset
    /\ adopted_text = Unset
    /\ revisions = 0
    /\ cycles = 0
    /\ max_scored = 0
    /\ first_hit = -1
    /\ trend = None
    /\ stop = None
    /\ suggestions = << >>
    /\ request = Unset
    /\ markup_seen = FALSE

\* a text in which the keyword occurs count times among total_words tokens
DensityInit ==
    /\ NoRun
    /\ scan = Unset
    /\ totals \in [count : 0..MaxCount, total_words : 0..MaxTotalWords]
    /\ pc = "density"
    /\ plain_text = << >>
    /\ soup = Unset
    /\ keyword = << >>
    /\ hash_seed = << >>
    /\ kw_analysis = Unset
    /\ readability = Unset
    /\ returned = << >>

\* _analyze_main_keyword computes the density and
\* _score_keyword_optimization scores it (no keyword position, no related
\* term)
ScoreDensity ==
    /\ pc = "density"
    /\ \E density \in Density(totals.count, totals.total_words) :
          /\ kw_analysis' = [main_keyword |-> [count   |-> totals.count,
                                               density |-> density]]
          /\ score_result' =
                [keyword_optimization |->
                    ScoreKeywordOptimization([EmptyText EXCEPT
                                                 !.density = density],
                                             competitor_data)]
    /\ pc' = "density_scored"
    /\ UNCHANGED <<weights, competitor_data, max_iterations, target_score,
                   draft_text, optimized_text, current_score, iteration,
                   result, report, saved_text, adopted_text, revisions, cycles,
                   max_scored, first_hit, trend, stop, suggestions, request>>
    /\ UNCHANGED <<plain_text, soup, keyword, hash_seed, readability, totals,
                   returned>>
    /\ UNCHANGED <<markup_seen, scan>>

DensityNext == ScoreDensity

DensitySpec == DensityInit /\ [][DensityNext]_vars

\* the points the density criterion added to the keyword score
DensityPoints == score_result.keyword_optimization.score - LsiScore(0)

\* C11: with density = occurrences / tokens x 100 the density criterion
\* awards 40 points exactly when 1.0 <= density <= 3.0, 25 points when
\* density is in [0.5, 1.0) or (3.0, 4.0], and 10 points otherwise
C11_DensityTiers ==
    (pc = "density_scored" /\ totals.total_words > 0) =>
        LET c == totals.count
            t == totals.total_words
        IN  DensityPoints =
                IF t <= 100 * c /\ 100 * c <= 3 * t THEN 40
                ELSE IF (t <= 200 * c /\ 100 * c < t)
                        \/ (3 * t < 100 * c /\ 100 * c <= 4 * t) THEN 25
                ELSE 10

----------------------------------------------------------------------------
(* ReadabilityChecker._calculate_flesch_reading_ease *)

\* a fraction num / den with den > 0
Fraction(num, den) == [num |-> num, den |-> den]

\* the score returned without max(0, ...)
ClampUpperOnly(num, den) == Fraction(Min(100 * den, num), den)

\* max(0, min(100, score)) for score = num / den
Clamp(num, den) == Fraction(Max(0, Min(100 * den, num)), den)

\* the index 100 returned for a text without sentences or words
FleschOfNothingHigh == Fraction(100, 1)

\* if sentences == 0 or words == 0: return 0
FleschOfNothing == Fraction(0, 1)

\* 180 - asl - 58.5 * asw with asl = words / sentences and
\* asw = syllables / words, as a fraction over 2 * sentences * words
CalculateFleschReadingEase(sentences, words, syllables) ==
    IF sentences = 0 \/ words = 0 THEN FleschOfNothing
    ELSE Clamp(360 * sentences * words - 2 * words * words
               - 117 * sentences * syllables,
               2 * sentences * words)

\* the sentence, word and syllable totals a text can have: a word has at
\* least one syllable and lies in a sentence
IsTotals(t) ==
    /\ t.words <= t.syllables
    /\ t.syllables <= MaxSyllablesPerWord * t.words
    /\ t.words > 0 => t.sentences > 0

\* two texts, given by their totals
FleschInit ==
    /\ NoRun
    /\ scan = Unset
    /\ totals \in {p \in [sentences : 0..MaxSentences, words : 0..MaxWords,
                           syllables : 0..(MaxSyllablesPerWord * MaxWords)]
                          \X [sentences : 0..MaxSentences, words : 0..MaxWords,
                              syllables : 0..(MaxSyllablesPerWord * MaxWords)] :
                        IsTotals(p[1]) /\ IsTotals(p[2])}
    /\ pc = "flesch"
    /\ plain_text = << >>
    /\ soup = Unset
    /\ keyword = << >>
    /\ hash_seed = << >>
    /\ kw_analysis = Unset
    /\ readability = Unset
    /\ returned = << >>

\* the index of both texts
CalculateFlesch ==
    /\ pc = "flesch"
    /\ readability' =
          <<CalculateFleschReadingEase(totals[1].sentences, totals[1].words,
                                       totals[1].syllables),
            CalculateFleschReadingEase(totals[2].sentences, totals[2].words,
                                       totals[2].syllables)>>
    /\ pc' = "flesch_done"
    /\ UNCHANGED <<weights, competitor_data, max_iterations, target_score,
                   draft_text, optimized_text, score_result, current_score,
                   iteration, result, report, saved_text, adopted_text,
                   revisions, cycles, max_scored, first_hit, trend, stop,
                   suggestions, request>>
    /\ UNCHANGED <<plain_text, soup, keyword, hash_seed, kw_analysis, totals,
                   returned>>
    /\ UNCHANGED <<markup_seen, scan>>

FleschNext == CalculateFlesch

FleschSpec == FleschInit /\ [][FleschNext]_vars

\* the text has a sentence and a word, so that its averages are quotients
HasAverages(t) == t.sentences > 0 /\ t.words > 0

\* average sentence length and syllables per word of t and u, compared
\* (zero when the text has no words, as check reports them)
SameSentenceLength(t, u) ==
    IF t.words = 0 \/ u.words = 0 THEN t.words = u.words
    ELSE t.words * u.sentences = u.words * t.sentences

SentenceLengthLeq(t, u) ==
    IF t.words = 0 THEN TRUE
    ELSE IF u.words = 0 THEN FALSE
    ELSE t.words * u.sentences <= u.words * t.sentences

SameSyllablesPerWord(t, u) ==
    IF t.words = 0 \/ u.words = 0 THEN t.words = u.words
    ELSE t.syllables * u.words = u.syllables * t.words

SyllablesPerWordLeq(t, u) ==
    IF t.words = 0 THEN TRUE
    ELSE IF u.words = 0 THEN FALSE
    ELSE t.syllables * u.words <= u.syllables * t.words

\* C12: the readability index is 180 - average sentence length - 58.5 x
\* average syllables per word clamped to [0, 100]; it is never negative or
\* above 100; it does not increase when the average sentence length grows
\* with the syllables per word fixed, nor when the syllables per word grow
\* with the sentence length fixed
C12_FleschClampedMonotone ==
    pc = "flesch_done" =>
        /\ \A i \in 1..2 :
              LET t   == totals[i]
                  f   == readability[i]
                  raw == 360 * t.sentences * t.words - 2 * t.words * t.words
                         - 117 * t.sentences * t.syllables
                  den == 2 * t.sentences * t.words
              IN  /\ f.den > 0
                  /\ 0 <= f.num /\ f.num <= 100 * f.den
                  /\ HasAverages(t) =>
                        IF raw < 0 THEN f.num = 0
                        ELSE IF raw > 100 * den THEN f.num = 100 * f.den
                        ELSE f.num * den = raw * f.den
        /\ (SameSyllablesPerWord(totals[1], totals[2])
             /\ SentenceLengthLeq(totals[1], totals[2])) =>
                readability[1].num * readability[2].den
                   >= readability[2].num * readability[1].den
        /\ (SameSentenceLength(totals[1], totals[2])
             /\ SyllablesPerWordLeq(totals[1], totals[2])) =>
                readability[1].num * readability[2].den
                   >= readability[2].num * readability[1].den

\* two texts with the same syllables per word, the second with longer
\* sentences and a strictly lower index, neither index clamped
C12_Witness ==
    /\ pc = "flesch_done"
    /\ HasAverages(totals[1]) /\ HasAverages(totals[2])
    /\ SameSyllablesPerWord(totals[1], totals[2])
    /\ SentenceLengthLeq(totals[1], totals[2])
    /\ ~SameSentenceLength(totals[1], totals[2])
    /\ readability[1].num * readability[2].den
          > readability[2].num * readability[1].den
    /\ 0 < readability[2].num
    /\ readability[1].num < 100 * readability[1].den

----------------------------------------------------------------------------
(* Texts as sequences of characters *)

\* the characters of the model's texts: letters, the blank, a sentence
\* terminator and a hyphen
Vowels      == {"a", "e"}
Consonants  == {"b", "d", "r"}
UpperCase   == {"A", "R"}
Whitespace  == {" "}
Terminators == {"."}
Hyphens     == {"-"}

\* str.lower() of one character
LowerChar(c) == IF c = "A" THEN "a" ELSE IF c = "R" THEN "r" ELSE c

\* str.lower()
Lower(text) == [i \in 1..Len(text) |-> LowerChar(text[i])]

\* \w of the regular expressions
IsWordChar(c) == c \in Vowels \cup Consonants \cup UpperCase

\* re.sub(r'[^\w\s]', ' ', text)
BlankPunctuation(text) ==
    [i \in 1..Len(text) |->
        IF IsWordChar(text[i]) \/ text[i] \in Whitespace THEN text[i] ELSE " "]

\* the non-empty pieces between runs of separators: the maximal runs of
\* characters outside seps, from the first to the last
Split(text, seps) ==
    LET n          == Len(text)
        IsStart(i) == /\ text[i] \notin seps
                      /\ i = 1 \/ text[i - 1] \in seps
        IsEnd(i)   == /\ text[i] \notin seps
                      /\ i = n \/ text[i + 1] \in seps
        starts     == SelectSeq([i \in 1..n |-> i], IsStart)
        ends       == SelectSeq([i \in 1..n |-> i], IsEnd)
    IN  [r \in 1..Len(starts) |-> SubSeq(text, starts[r], ends[r])]

\* str.strip()
RECURSIVE Strip(_)
Strip(text) ==
    IF text = << >> THEN << >>
    ELSE IF Head(text) \in Whitespace THEN Strip(Tail(text))
    ELSE IF text[Len(text)] \in Whitespace
    THEN Strip(SubSeq(text, 1, Len(text) - 1))
    ELSE text

\* [f(x) for x in s if keep]
RECURSIVE StrippedNonEmpty(_)
StrippedNonEmpty(pieces) ==
    IF pieces = << >> THEN << >>
    ELSE (IF Strip(Head(pieces)) = << >> THEN << >>
          ELSE <<Strip(Head(pieces))>>)
         \o StrippedNonEmpty(Tail(pieces))

----------------------------------------------------------------------------
(* ReadabilityChecker.check *)

\* re.split(r'[.!?]+', text), stripped, without the empty pieces
SplitSentences(text) == StrippedNonEmpty(Split(text, Terminators))

SplitWords(text) == Split(BlankPunctuation(text), Whitespace)

\* the vowel groups of a lower-case word from position i on
RECURSIVE VowelGroups(_, _, _)
VowelGroups(word, i, previous_was_vowel) ==
    IF i > Len(word) THEN 0
    ELSE (IF word[i] \in Vowels /\ ~previous_was_vowel THEN 1 ELSE 0)
         + VowelGroups(word, i + 1, word[i] \in Vowels)

CountWordSyllables(word) == Max(1, VowelGroups(word, 1, FALSE))

RECURSIVE SumOver(_, _)
SumOver(numbers, i) ==
    IF i > Len(numbers) THEN 0 ELSE numbers[i] + SumOver(numbers, i + 1)

CountSyllables(text) ==
    SumOver([i \in 1..Len(SplitWords(text)) |->
                CountWordSyllables(Lower(SplitWords(text)[i]))], 1)

\* _calculate_complexity before rounding, as a set of values in hundredths
CalculateComplexity(words, sentences) ==
    IF words = << >> THEN {0}
    ELSE LET long_words == Cardinality({i \in 1..Len(words) : Len(words[i]) > 12})
             unique     == Cardinality({words[i] : i \in 1..Len(words)})
             length_points ==
                 IF sentences = << >> THEN 0
                 ELSE IF Len(words) > 25 * Len(sentences) THEN 30
                 ELSE IF Len(words) > 20 * Len(sentences) THEN 20
                 ELSE IF Len(words) > 15 * Len(sentences) THEN 10
                 ELSE 0
             unique_points ==
                 IF unique * 10 > 7 * Len(words) THEN 30
                 ELSE IF unique * 10 > 5 * Len(words) THEN 20
                 ELSE 0
         IN  {Min(10000, ratio + 100 * (length_points + unique_points)) :
                 ratio \in RoundDiv(long_words * 4000, Len(words))}

\* _get_readability_grade of a fraction
GetReadabilityGrade(flesch) ==
    IF flesch.num >= 80 * flesch.den THEN "Sehr leicht (5. Klasse)"
    ELSE IF flesch.num >= 70 * flesch.den THEN "Leicht (6. Klasse)"
    ELSE IF flesch.num >= 60 * flesch.den THEN "Relativ leicht (7.-8. Klasse)"
    ELSE IF flesch.num >= 50 * flesch.den THEN "Standard (9.-10. Klasse)"
    ELSE IF flesch.num >= 40 * flesch.den THEN "Relativ schwierig (11.-12. Klasse)"
    ELSE IF flesch.num >= 30 * flesch.den THEN "Schwierig (Studium)"
    ELSE "Sehr schwierig (Akademisch)"

\* the dicts check(text) can return; rates in hundredths
Check(text) ==
    LET sentences == SplitSentences(text)
        words     == SplitWords(text)
        syllables == CountSyllables(text)
        flesch    == CalculateFleschReadingEase(Len(sentences), Len(words),
                                                syllables)
    IN  {[flesch_reading_ease    |-> fre,
          avg_sentence_length    |-> asl,
          avg_word_length        |-> awl,
          avg_syllables_per_word |-> asw,
          total_sentences        |-> Len(sentences),
          total_words            |-> Len(words),
          total_syllables        |-> syllables,
          complexity_score       |-> complexity,
          readability_grade      |-> GetReadabilityGrade(flesch)] :
            fre \in RoundDiv(flesch.num * 100, flesch.den),
            asl \in IF sentences /= << >>
                    THEN RoundDiv(Len(words) * 100, Len(sentences)) ELSE {0},
            awl \in IF words /= << >>
                    THEN RoundDiv(SumOver([i \in 1..Len(words) |-> Len(words[i])], 1)
                                  * 100, Len(words))
                    ELSE {0},
            asw \in IF words /= << >>
                    THEN RoundDiv(syllables * 100, Len(words)) ELSE {0},
            complexity \in CalculateComplexity(words, sentences)}

\* the characters of the texts check is applied to
ReadabilityChars == {"a", "A", "r", " ", ".", "-"}

ReadabilityInit ==
    /\ NoRun
    /\ scan = Unset
    /\ plain_text \in UNION {[1..n -> ReadabilityChars] : n \in 0..MaxChars}
    /\ pc = "check"
    /\ soup = Unset
    /\ keyword = << >>
    /\ hash_seed = << >>
    /\ kw_analysis = Unset
    /\ readability = Unset
    /\ totals = Unset
    /\ returned = << >>

CheckReadability ==
    /\ pc = "check"
    /\ readability' \in Check(plain_text)
    /\ pc' = "checked"
    /\ UNCHANGED <<weights, competitor_data, max_iterations, target_score,
                   draft_text, optimized_text, score_result, current_score,
                   iteration, result, report, saved_text, adopted_text,
                   revisions, cycles, max_scored, first_hit, trend, stop,
                   suggestions, request>>
    /\ UNCHANGED <<plain_text, soup, keyword, hash_seed, kw_analysis, totals,
                   returned>>
    /\ UNCHANGED <<markup_seen, scan>>

ReadabilityNext == CheckReadability

ReadabilitySpec == ReadabilityInit /\ [][ReadabilityNext]_vars

\* C13: check on a text with zero sentences or zero words (a text without a
\* word character, which may still have sentence fragments) returns index
\* 0, average sentence length 0, average word length 0, average syllables
\* per word 0 and complexity 0
C13_NoWordsAllZero ==
    (pc = "checked"
     /\ \/ readability.total_sentences = 0
        \/ readability.total_words = 0
        \/ \A i \in 1..Len(plain_text) : ~IsWordChar(plain_text[i])) =>
        /\ readability.total_words = 0
        /\ readability.flesch_reading_ease = 0
        /\ readability.avg_sentence_length = 0
        /\ readability.avg_word_length = 0
        /\ readability.avg_syllables_per_word = 0
        /\ readability.complexity_score = 0

\* a text with two sentence fragments and no word
C13_Witness ==
    /\ pc = "checked"
    /\ readability.total_sentences = 2
    /\ readability.total_words = 0
    /\ readability.flesch_reading_ease = 0

----------------------------------------------------------------------------
(* KeywordAnalyzer *)

\* text[:n]
Take(text, n) == SubSeq(text, 1, Min(n, Len(text)))

\* sub in text
Contains(sub, text) ==
    \E i \in 1..(Len(text) - Len(sub) + 1) :
        SubSeq(text, i, i + Len(sub) - 1) = sub

\* the offsets at which sub occurs in text, in increasing order; the empty
\* string occurs before every character and at the end
FindAll(text, sub) ==
    LET Occurs(p) == SubSeq(text, p + 1, p + Len(sub)) = sub
    IN  SelectSeq([i \in 1..(Len(text) - Len(sub) + 1) |-> i - 1], Occurs)

\* the non-overlapping occurrences among the i-th and later offsets, the
\* previous occurrence ending before offset free
RECURSIVE CountFrom(_, _, _, _)
CountFrom(offsets, width, i, free) ==
    IF i > Len(offsets) THEN 0
    ELSE IF offsets[i] >= free
    THEN 1 + CountFrom(offsets, width, i + 1, offsets[i] + width)
    ELSE CountFrom(offsets, width, i + 1, free)

\* str.count: the empty string occurs before every character and at the end
Count(text, sub) ==
    IF sub = << >> THEN Len(text) + 1
    ELSE CountFrom(FindAll(text, sub), Len(sub), 1, 0)

\* _tokenize
Tokenize(text) ==
    LET LongerThanTwo(w) == Len(w) > 2
    IN  SelectSeq(Split(BlankPunctuation(Lower(text)), Whitespace), LongerThanTwo)

\* the elements of a list without repetitions, in the order of their first
\* occurrence (the keys of a Counter)
Distinct(words) ==
    LET IsFirst(i) == \A j \in 1..(i - 1) : words[j] /= words[i]
        firsts     == SelectSeq([i \in 1..Len(words) |-> i], IsFirst)
    IN  [r \in 1..Len(firsts) |-> words[firsts[r]]]

\* sorted(items, key, reverse=True) for keys that are fractions: a stable
\* sort.  key and rank are the sequences written out, element by element.
SortedDescending(items, keys) ==
    LET n   == Len(items)
        key == SubSeq(keys, 1, n)
        Before(i, j) ==
            \/ key[i].num * key[j].den > key[j].num * key[i].den
            \/ /\ key[i].num * key[j].den = key[j].num * key[i].den
               /\ i < j
        rank == SubSeq([i \in 1..n |->
                           Cardinality({j \in 1..n : Before(j, i)}) + 1], 1, n)
    IN  [r \in 1..n |-> items[CHOOSE i \in 1..n : rank[i] = r]]

\* the hash table of a set of str: it starts with NumSlots slots, a word
\* goes to the first free slot from its hash on, the table grows when three
\* fifths of it are filled, and the set is iterated in slot order.  The hash
\* of a str depends on the interpreter's hash seed.
NumSlots == 8

CharCode(c) ==
    IF c = "a" THEN 1 ELSE IF c = "b" THEN 2 ELSE IF c = "d" THEN 3
    ELSE IF c = "e" THEN 4 ELSE 5

Hash(word, seed) ==
    SumOver([i \in 1..Len(word) |-> CharCode(word[i])], 1) + seed * Len(word)

EmptyTable == [slot \in 0..(NumSlots - 1) |-> << >>]

RECURSIVE Probe(_, _)
Probe(table, slot) ==
    IF table[slot] = << >> THEN slot
    ELSE Probe(table, (slot + 1) % Cardinality(DOMAIN table))

\* list(a_set)
ListOfSet(table) ==
    LET Used(word) == word /= << >>
    IN  SelectSeq([i \in 1..Cardinality(DOMAIN table) |-> table[i - 1]], Used)

\* set.add.  Insert is the entry of a word that is not in the table;
\* GrownSize is the size of the table after it has grown, the first doubling
\* of NumSlots above four times the number of entries.
Add(table, word, seed) ==
    LET Size(t) == Cardinality(DOMAIN t)
        Insert(t, w) == [t EXCEPT ![Probe(t, Hash(w, seed) % Size(t))] = w]
        RECURSIVE InsertAll(_, _)
        InsertAll(t, words) ==
            IF words = << >> THEN t
            ELSE InsertAll(Insert(t, Head(words)), Tail(words))
        RECURSIVE GrownSize(_, _)
        GrownSize(size, used) ==
            IF size > used * 4 THEN size ELSE GrownSize(size * 2, used)
    IN  IF \E slot \in DOMAIN table : table[slot] = word THEN table
        ELSE LET added == Insert(table, word)
                 used  == Len(ListOfSet(added))
             IN  IF used * 5 < (Size(added) - 1) * 3 THEN added
                 ELSE InsertAll([slot \in 0..(GrownSize(NumSlots, used) - 1)
                                    |-> << >>],
                                ListOfSet(added))

\* set.add for each word of the list in turn
RECURSIVE AddAll(_, _, _)
AddAll(table, words, seed) ==
    IF words = << >> THEN table
    ELSE AddAll(Add(table, Head(words), seed), Tail(words), seed)

\* the words the loops of _find_keyword_variations add, part by part
RECURSIVE VariationsOfParts(_, _)
VariationsOfParts(words, parts) ==
    IF parts = << >> THEN << >>
    ELSE LET part == Head(parts)
             IsVariation(word) == Contains(part, word) /\ word /= part
         IN  (IF Len(part) > 3 THEN SelectSeq(words, IsVariation) ELSE << >>)
             \o VariationsOfParts(words, Tail(parts))

\* _find_keyword_variations
FindKeywordVariations(words, kw, seed) ==
    LET keyword_parts == Split(kw, Whitespace)
        IsVariation(word) ==
            \/ Contains(kw, word) /\ word /= kw
            \/ Contains(word, kw) /\ Len(word) > 3
        added == IF Len(keyword_parts) > 1
                 THEN VariationsOfParts(words, keyword_parts)
                 ELSE SelectSeq(words, IsVariation)
    IN  Take(ListOfSet(AddAll(EmptyTable, added, seed)), 10)

\* _analyze_main_keyword
AnalyzeMainKeyword(text_lower, words, kw, seed) ==
    LET keyword_lower == Lower(kw)
        count         == Count(text_lower, keyword_lower)
        variations    == FindKeywordVariations(words, keyword_lower, seed)
    IN  {[keyword         |-> kw,
          count           |-> count,
          density         |-> density,
          variations      |-> variations,
          variation_count |-> Len(variations)] :
            density \in Density(count, Len(words))}

\* the stop words that can be written with the model's letters
Stopwords ==
    {<<"d", "e", "r">>, <<"a", "b", "e", "r">>, <<"e", "r">>, <<"d", "a">>}

\* the relevance as the number of common characters, not divided
CalculateRelevanceUnscaled(word, main_keyword) ==
    LET main_kw_lower == Lower(main_keyword)
    IN  Fraction(Cardinality({word[i] : i \in 1..Len(word)}
                             \cap {main_kw_lower[i] :
                                      i \in 1..Len(main_kw_lower)}), 1)

\* _calculate_relevance
CalculateRelevance(word, main_keyword) ==
    LET main_kw_lower == Lower(main_keyword)
        common_chars  == {word[i] : i \in 1..Len(word)}
                         \cap {main_kw_lower[i] : i \in 1..Len(main_kw_lower)}
    IN  IF Contains(word, main_kw_lower) \/ Contains(main_kw_lower, word)
        THEN Fraction(1, 1)
        ELSE Fraction(Cardinality(common_chars),
                      Max(Len(word), Len(main_kw_lower)))

\* _find_related_keywords
FindRelatedKeywords(words, main_keyword) ==
    LET keys         == Distinct(words)
        CountOf(w)   == Cardinality({i \in 1..Len(words) : words[i] = w})
        most_common  == Take(SortedDescending(keys,
                                [i \in 1..Len(keys) |->
                                    Fraction(CountOf(keys[i]), 1)]), 50)
        IsRelated(w) == /\ w \notin Stopwords
                        /\ w /= Lower(main_keyword)
                        /\ CountOf(w) >= 2
        kept         == SelectSeq(most_common, IsRelated)
        related      == [i \in 1..Len(kept) |->
                            [keyword   |-> kept[i],
                             count     |-> CountOf(kept[i]),
                             relevance |-> CalculateRelevance(kept[i],
                                                              main_keyword)]]
    IN  Take(SortedDescending(related,
                              [i \in 1..Len(related) |-> related[i].relevance]),
             20)

\* _find_keyword_positions
FindKeywordPositions(text, kw) ==
    LET positions   == FindAll(Lower(text), Lower(kw))
        text_length == Len(text)
    IN  [total_occurrences  |-> Len(positions),
         in_first_100_chars |-> \E i \in 1..Len(positions) : positions[i] < 100,
         in_first_paragraph |-> \E i \in 1..Len(positions) : positions[i] < 500,
         in_last_paragraph  |-> \E i \in 1..Len(positions) :
                                   positions[i] > text_length - 500,
         positions          |-> Take(positions, 10)]

\* the dicts analyze(text, main_keyword) can return
Analyze(text, main_keyword, seed) ==
    LET words      == Tokenize(text)
        related_kw == FindRelatedKeywords(words, main_keyword)
    IN  {[main_keyword     |-> main_kw_data,
          related_keywords |-> related_kw,
          positions        |-> FindKeywordPositions(text, main_keyword),
          total_keywords   |-> Len(related_kw) + 1] :
            main_kw_data \in AnalyzeMainKeyword(Lower(text), words,
                                                main_keyword, seed)}

----------------------------------------------------------------------------
(* ContentScorer._score_keyword_optimization applied to a text *)

\* what _score_keyword_optimization measures: the density and the related
\* terms of the analysis, the keyword in the first 200 characters and in
\* the h1 and h2 tags
KeywordMetrics(text, tags, kw, analysis) ==
    LET HasKeyword(heading) == Contains(Lower(kw), Lower(heading))
    IN  [EmptyText EXCEPT
            !.density     = analysis.main_keyword.density,
            !.kw_in_first = Contains(Lower(kw), Lower(Take(text, 200))),
            !.h1_count    = Len(tags.h1),
            !.h1_with_kw  = Len(SelectSeq(tags.h1, HasKeyword)),
            !.h2_count    = Len(tags.h2),
            !.h2_with_kw  = Len(SelectSeq(tags.h2, HasKeyword)),
            !.lsi_count   = Len(analysis.related_keywords)]

\* the dict _score_keyword_optimization returns, metrics included
KeywordCategory(text, tags, kw, analysis) ==
    LET category == ScoreKeywordOptimization(KeywordMetrics(text, tags, kw,
                                                            analysis),
                                             competitor_data)
    IN  [score      |-> category.score,
         max_score  |-> category.max_score,
         percentage |-> category.percentage,
         details    |-> category.details,
         metrics    |-> analysis]

\* the words and separators the texts are made of
Pieces ==
    {<<"r", "a", "d">>,
     <<"r", "a", "d", " ">>,
     <<"R", "a", "d", "e", "r", " ">>,
     <<"r", "a", "d", "e", " ">>,
     <<"d", "e", "r", " ">>,
     <<"b", "a", "d", " ">>,
     <<".", " ">>}

RECURSIVE Flatten(_)
Flatten(pieces) ==
    IF pieces = << >> THEN << >> ELSE Head(pieces) \o Flatten(Tail(pieces))

PlainTexts ==
    {Flatten(pieces) : pieces \in UNION {[1..n -> Pieces] : n \in 0..MaxPieces}}

\* the empty keyword, a word, the word capitalised, and two words
Keywords ==
    {<< >>,
     <<"r", "a", "d">>,
     <<"R", "a", "d">>,
     <<"b", "a", "d", " ", "r", "a", "d", "e">>}

\* the texts of the h1 and h2 tags: a text without markup has none
Soups(text) ==
    {tags \in {[h1 |-> << >>, h2 |-> << >>],
               [h1 |-> <<<<"R", "a", "d", "e", "r">>>>,
                h2 |-> <<<<"r", "a", "d">>, <<"b", "a", "d">>>>],
               [h1 |-> <<<<"b", "a", "d">>>>,
                h2 |-> <<<<"r", "a", "d", "e">>, <<"r", "a", "d">>>>]} :
        /\ \A i \in 1..Len(tags.h1) : Contains(tags.h1[i], text)
        /\ \A i \in 1..Len(tags.h2) : Contains(tags.h2[i], text)}

\* the hash seeds an interpreter can start with
HashSeeds == {0, 1}

KeywordInit ==
    /\ NoRun
    /\ scan = Unset
    /\ plain_text \in PlainTexts
    /\ soup \in Soups(plain_text)
    /\ keyword \in Keywords
    /\ hash_seed \in HashSeeds
    /\ pc = "keywords"
    /\ kw_analysis = Unset
    /\ readability = Unset
    /\ totals = Unset
    /\ returned = << >>

\* the keyword category of score(text, keyword, competitor_data), computed
\* at most twice for the same arguments
ScoreKeywords ==
    /\ pc = "keywords"
    /\ Len(returned) < 2
    /\ \E analysis \in Analyze(plain_text, keyword, hash_seed) :
          /\ kw_analysis' = analysis
          /\ score_result' =
                [keyword_optimization |->
                    KeywordCategory(plain_text, soup, keyword, analysis)]
          /\ returned' = Append(returned,
                                KeywordCategory(plain_text, soup, keyword,
                                                analysis))
    /\ UNCHANGED <<weights, competitor_data, max_iterations, target_score,
                   draft_text, optimized_text, current_score, iteration,
                   result, report, saved_text, adopted_text, revisions, cycles,
                   max_scored, first_hit, trend, stop, suggestions, request>>
    /\ UNCHANGED <<pc, plain_text, soup, keyword, hash_seed, readability,
                   totals>>
    /\ UNCHANGED <<markup_seen, scan>>

\* the program is run again: a new interpreter with its own hash seed
\* (PYTHONHASHSEED is random unless set)
StartInterpreter ==
    /\ pc = "keywords"
    /\ Len(returned) = 1
    /\ hash_seed' \in HashSeeds \ {hash_seed}
    /\ UNCHANGED <<weights, competitor_data, max_iterations, target_score,
                   draft_text, optimized_text, score_result, current_score,
                   iteration, result, report, saved_text, adopted_text,
                   revisions, cycles, max_scored, first_hit, trend, stop,
                   suggestions, request>>
    /\ UNCHANGED <<pc, plain_text, soup, keyword, kw_analysis, readability,
                   totals, returned>>
    /\ UNCHANGED <<markup_seen, scan>>

KeywordNext ==
    \/ ScoreKeywords
    \/ StartInterpreter

KeywordSpec == KeywordInit /\ [][KeywordNext]_vars

----------------------------------------------------------------------------
(* KeywordAnalyzer.analyze applied to a text *)

\* The texts analyze is applied to.
\* LongText(d, v, c): d three-letter words (aaa, aab, aad, ...) twice each,
\* then v words that start with rad (radaa, radab, ...), then c times the
\* word rade twice.
\* LongTexts: up to MaxFillers distinct words that occur twice, around the
\* 20 related terms returned and the 50 most common words looked at; up to
\* MaxVariants variations, around the 10 returned.
\* PaddedTexts: the word rad after k blanks and before m blanks, around the
\* offsets 100, 500 and len(text) - 500.
\* OverlapTexts: texts in which the keyword rar overlaps itself.
ProfileInit ==
    LET Spaces(n) == [i \in 1..n |-> " "]
        Letters   == <<"a", "b", "d", "e", "r">>
        FillerWord(i) ==
            <<Letters[((i \div 25) % 5) + 1], Letters[((i \div 5) % 5) + 1],
              Letters[(i % 5) + 1]>>
        VariantWord(j) ==
            <<"r", "a", "d", Letters[((j \div 5) % 5) + 1],
              Letters[(j % 5) + 1]>>
        JoinWords(Word(_), count, width) ==
            [i \in 1..(count * (width + 1)) |->
                IF (i - 1) % (width + 1) = width THEN " "
                ELSE Word((i - 1) \div (width + 1))[((i - 1) % (width + 1)) + 1]]
        LongText(d, v, c) ==
            JoinWords(LAMBDA i : FillerWord(i \div 2), 2 * d, 3)
            \o JoinWords(VariantWord, v, 5)
            \o JoinWords(LAMBDA k : <<"r", "a", "d", "e">>, 2 * c, 4)
        LongTexts ==
            {LongText(d, v, c) :
                d \in {0, 19, 20, 21, MaxFillers - 1, MaxFillers},
                v \in {0, MaxVariants - 1, MaxVariants}, c \in 0..1}
        PaddedTexts ==
            {Spaces(k) \o <<"r", "a", "d">> \o Spaces(m) :
                k \in {0, 99, 100, 499, 500}, m \in {0, 496, 497, 498}}
        OverlapTexts ==
            {<<"r", "a", "r", "a", "r">>,
             <<"r", "a", "r", "a", "r", " ", "r", "a", "r">>,
             <<"b", "a", "d", " ", "r", "a", "r", "a", "r", "a", "r">>}
    IN  /\ NoRun
        /\ scan = Unset
        /\ plain_text \in PlainTexts \cup LongTexts \cup PaddedTexts
                             \cup OverlapTexts
        /\ keyword \in Keywords \cup {<<"r", "a", "r">>}
        /\ hash_seed \in HashSeeds
        /\ pc = "analyze"
        /\ soup = Unset
        /\ kw_analysis = Unset
        /\ readability = Unset
        /\ totals = Unset
        /\ returned = << >>

\* analyze(text, main_keyword)
AnalyzeText ==
    /\ pc = "analyze"
    /\ kw_analysis' \in Analyze(plain_text, keyword, hash_seed)
    /\ pc' = "analyzed"
    /\ UNCHANGED <<weights, competitor_data, max_iterations, target_score,
                   draft_text, optimized_text, score_result, current_score,
                   iteration, result, report, saved_text, adopted_text,
                   revisions, cycles, max_scored, first_hit, trend, stop,
                   suggestions, request>>
    /\ UNCHANGED <<plain_text, soup, keyword, hash_seed, readability, totals,
                   returned, markup_seen, scan>>

ProfileSpec == ProfileInit /\ [][AnalyzeText]_vars

----------------------------------------------------------------------------
(* The offset scan of KeywordAnalyzer._find_keyword_positions, one *)
(* iteration of its loop per step                                  *)

\* str.find ignoring start: always the first occurrence
FindFirst(text, sub, start) ==
    LET hits == {p \in 0..(Len(text) - Len(sub)) :
                    SubSeq(text, p + 1, p + Len(sub)) = sub}
    IN  IF hits = {} THEN -1
        ELSE CHOOSE p \in hits : \A q \in hits : p <= q

\* str.find(sub, start): the lowest offset >= start at which sub occurs in
\* text, -1 when there is none; the empty string occurs at every offset up
\* to len(text)
Find(text, sub, start) ==
    LET hits == {p \in start..(Len(text) - Len(sub)) :
                    SubSeq(text, p + 1, p + Len(sub)) = sub}
    IN  IF hits = {} THEN -1
        ELSE CHOOSE p \in hits : \A q \in hits : p <= q

\* positions = [], start = 0; visits is the set of the values of start that
\* find was called with.  The texts have at most MaxScanLen characters; the
\* keywords are the empty keyword, keywords that overlap themselves, a
\* keyword in upper case and a keyword longer than the shorter texts.
ScanInit ==
    /\ NoRun
    /\ plain_text \in UNION {[1..n -> {"r", "a", "R"}] : n \in 0..MaxScanLen}
    /\ keyword \in {<< >>, <<"r">>, <<"R", "a">>, <<"r", "a", "r">>,
                    <<"r", "a", "r", "a", "r">>}
    /\ hash_seed = 0
    /\ pc = "scan"
    /\ scan = [start |-> 0, positions |-> << >>, visits |-> {}]
    /\ soup = Unset
    /\ kw_analysis = Unset
    /\ readability = Unset
    /\ totals = Unset
    /\ returned = << >>

\* one iteration of the while True loop
ScanStep ==
    /\ pc = "scan"
    /\ LET pos == Find(Lower(plain_text), Lower(keyword), scan.start)
       IN  IF pos = -1
           THEN /\ pc' = "scanned"
                /\ scan' = [scan EXCEPT !.visits = @ \cup {scan.start}]
           ELSE /\ pc' = pc
                /\ scan' = [start     |-> pos + 1,
                            positions |-> Append(scan.positions, pos),
                            visits    |-> scan.visits \cup {scan.start}]
    /\ UNCHANGED <<weights, competitor_data, max_iterations, target_score,
                   draft_text, optimized_text, score_result, current_score,
                   iteration, result, report, saved_text, adopted_text,
                   revisions, cycles, max_scored, first_hit, trend, stop,
                   suggestions, request>>
    /\ UNCHANGED <<plain_text, soup, keyword, hash_seed, kw_analysis,
                   readability, totals, returned, markup_seen>>

\* the loop runs on until it breaks
ScanSpec == ScanInit /\ [][ScanStep]_vars /\ WF_vars(ScanStep)

\* C30: the offset scan terminates for every text and every keyword,
\* including the empty keyword and keywords longer than the text: the search
\* start strictly increases on each found occurrence and the scan visits at
\* most len(text) + 1 start positions
C30_ScanTerminates ==
    /\ <>(pc = "scanned")
    /\ [][pc' = "scan" => scan'.start > scan.start]_vars
    /\ [](Cardinality(scan.visits) <= Len(plain_text) + 1)

\* C30, amended: the scan terminates, the search start strictly increases
\* on each found occurrence, and the scan visits at most len(text) + 1 start
\* positions for a non-empty keyword and at most len(text) + 2 for the empty
\* keyword
C30_ScanTerminatesEmptyOneMore ==
    /\ <>(pc = "scanned")
    /\ [][pc' = "scan" => scan'.start > scan.start]_vars
    /\ [](Cardinality(scan.visits)
            <= Len(plain_text) + (IF keyword = << >> THEN 2 ELSE 1))

\* the scan of a non-empty text for the empty keyword has ended after
\* len(text) + 2 calls of find, with an occurrence at every offset
C30_Witness ==
    /\ pc = "scanned"
    /\ keyword = << >>
    /\ plain_text /= << >>
    /\ Len(scan.positions) = Len(plain_text) + 1
    /\ scan.visits = 0..(Len(plain_text) + 1)

----------------------------------------------------------------------------
(* Properties of KeywordAnalyzer.analyze *)

\* the tokens that occur at least twice, are no stop words and are not the
\* main keyword
Qualifying ==
    LET words == Tokenize(plain_text)
    IN  {words[i] : i \in {i \in 1..Len(words) :
            /\ Cardinality({j \in 1..Len(words) : words[j] = words[i]}) >= 2
            /\ words[i] \notin Stopwords
            /\ words[i] /= Lower(keyword)}}

\* the tokens that contain the keyword and are not the keyword
Variants ==
    LET words == Tokenize(plain_text)
    IN  {words[i] : i \in {i \in 1..Len(words) :
            /\ Contains(Lower(keyword), words[i])
            /\ words[i] /= Lower(keyword)}}

\* the offsets at which the keyword occurs in the text
Offsets ==
    {p \in 0..Len(plain_text) :
        /\ p + Len(keyword) <= Len(plain_text)
        /\ SubSeq(Lower(plain_text), p + 1, p + Len(keyword)) = Lower(keyword)}

FractionLeq(a, b) == a.num * b.den <= b.num * a.den

\* C21: the related terms are the 20 highest-relevance terms among all
\* tokens that occur at least twice, are no stop words and are not the main
\* keyword: every returned term is such a token, 20 are returned when there
\* are that many, and no such token is left out in favour of a returned term
\* with lower relevance
C21_RelatedAreMostRelevant ==
    pc = "analyzed" =>
        LET related == kw_analysis.related_keywords
            terms   == {related[i].keyword : i \in 1..Len(related)}
        IN  /\ terms \subseteq Qualifying
            /\ Len(related) = Min(20, Cardinality(Qualifying))
            /\ \A word \in Qualifying \ terms :
                  \A i \in 1..Len(related) :
                      FractionLeq(CalculateRelevance(word, keyword),
                                  related[i].relevance)

\* C23: the variants list has at most 10 entries, the related-terms list at
\* most 20, the retained offsets at most 10, and every relevance weight lies
\* in [0,1]
C23_ProfileBounds ==
    pc = "analyzed" =>
        /\ Len(kw_analysis.main_keyword.variations) <= 10
        /\ Len(kw_analysis.related_keywords) <= 20
        /\ Len(kw_analysis.positions.positions) <= 10
        /\ \A i \in 1..Len(kw_analysis.related_keywords) :
              LET relevance == kw_analysis.related_keywords[i].relevance
              IN  /\ relevance.den > 0
                  /\ 0 <= relevance.num
                  /\ relevance.num <= relevance.den

\* a text with more than 10 variants, more than 20 candidates for related
\* terms and more than 10 occurrences, of which 10, 20 and 10 are returned,
\* one of the related terms with a relevance strictly between 0 and 1
C23_Witness ==
    /\ pc = "analyzed"
    /\ Cardinality(Variants) > 10
    /\ Cardinality(Qualifying) > 20
    /\ Cardinality(Offsets) > 10
    /\ Len(kw_analysis.main_keyword.variations) = 10
    /\ Len(kw_analysis.related_keywords) = 20
    /\ Len(kw_analysis.positions.positions) = 10
    /\ \E i \in 1..20 :
          LET relevance == kw_analysis.related_keywords[i].relevance
          IN  0 < relevance.num /\ relevance.num < relevance.den

\* C24: in_first_100_chars is true iff some occurrence offset is < 100,
\* in_first_paragraph iff some offset is < 500, and in_last_paragraph iff
\* some offset p has p >= len(text) - 500
C24_PositionFlagsExact ==
    pc = "analyzed" =>
        /\ kw_analysis.positions.in_first_100_chars
              = (\E p \in Offsets : p < 100)
        /\ kw_analysis.positions.in_first_paragraph
              = (\E p \in Offsets : p < 500)
        /\ kw_analysis.positions.in_last_paragraph
              = (\E p \in Offsets : p >= Len(plain_text) - 500)

\* C29: the two occurrence counts agree: positions.total_occurrences equals
\* main_keyword.count, also for keywords that can overlap themselves
C29_OccurrenceCountsAgree ==
    pc = "analyzed" =>
        kw_analysis.positions.total_occurrences
            = kw_analysis.main_keyword.count

\* C15: scoring with the empty keyword reports occurrence count 0 and
\* density 0, and the density, first-paragraph, H1 and H2 criteria take
\* their minimum tier: the keyword score is the 10 points of the lowest
\* density tier plus the points for the related terms
C15_EmptyKeywordZero ==
    (keyword = << >> /\ Len(returned) >= 1) =>
        /\ kw_analysis.main_keyword.count = 0
        /\ kw_analysis.main_keyword.density = 0
        /\ score_result.keyword_optimization.score
              = 10 + LsiScore(Len(kw_analysis.related_keywords))
        /\ \A i \in 1..Len(score_result.keyword_optimization.details) :
              score_result.keyword_optimization.details[i].message
                 \notin {"Keyword im ersten Absatz", "Keyword in H1",
                         "Keyword in H2-Ueberschriften"}

\* C17: two calls with the same text, keyword and benchmark return the same
\* result, the order of the variations and of the related terms included
C17_SameResultTwice ==
    Len(returned) = 2 => returned[1] = returned[2]

----------------------------------------------------------------------------
(* Properties of the optimisation loop, checked under Spec and FairSpec *)

Terminated == pc \in {"done", "failed", "aborted"}

\* every revision so far scored strictly higher than the text it revised
AllImproving == trend \in {None, "plus5", "up"}

\* C1: when a revision does not improve the score the loop stops and the text
\* handed to the later phases, with its ScoreResult, is the last adopted
\* text, not the revision
C1_StagnantKeepsPrevious ==
    (pc = "done" /\ stop = "stagnant") =>
        /\ saved_text = adopted_text
        /\ result.score_breakdown.total_score = current_score

\* C2: the loop terminates, and it never makes more than max_iterations
\* revision requests
C2_TerminatesWithinMaxIterations ==
    /\ <>Terminated
    /\ [](revisions <= max_iterations)

C2_Witness ==
    pc = "done" /\ stop = "exhausted" /\ max_iterations >= 2
    /\ revisions = max_iterations

\* C3: when every revision scores strictly higher than its input the loop
\* does not stagnate; it makes as many revisions as it takes to meet the
\* target and stops with the target met, or max_iterations revisions when
\* that is fewer, and stops exhausted
C3_ImprovingRuns ==
    (pc = "done" /\ AllImproving) =>
        /\ stop /= "stagnant"
        /\ IF first_hit /= -1
           THEN revisions = first_hit /\ first_hit <= max_iterations
                /\ stop = "target_met"
           ELSE revisions = max_iterations /\ stop = "exhausted"

\* max_iterations 5, target 75, draft at 60, every revision adds 5 points:
\* three iterations, final score 75
C3_Witness ==
    /\ pc = "done" /\ trend = "plus5"
    /\ max_iterations = 5 /\ target_score = 7500
    /\ draft_text \in {t \in RunTexts :
          \E sr \in Score(t, competitor_data, weights) : sr.total_score = 6000}
    /\ revisions = 3 /\ current_score = 7500 /\ stop = "target_met"
    /\ result.iterations = 3

\* C4: when the revision scores the same as its input (the draft being below
\* target and max_iterations >= 1) exactly one revision is requested and the
\* loop has stopped
C4_FlatStopsAfterOne ==
    trend = "flat" =>
        /\ revisions = 1 /\ cycles = 1
        /\ pc \notin {"loop", "rescore"}
        /\ stop = "stagnant"

C4_Witness ==
    pc = "done" /\ trend = "flat" /\ max_iterations >= 2
    /\ optimized_text /= draft_text

\* C5: the iteration count of the result and of the report is the number of
\* revise-then-rescore cycles performed, in every terminal state
C5_IterationsAreCycles ==
    pc = "done" => result.iterations = cycles /\ report.iterations = cycles

\* C6: when the loop ends exhausted the final text is the best one reached:
\* its score is the highest score computed in the run and is the reported
\* final score
C6_ExhaustedKeepsBest ==
    (pc = "done" /\ stop = "exhausted") =>
        /\ saved_text = adopted_text
        /\ score_result \in Score(saved_text, competitor_data, weights)
        /\ score_result.total_score = max_scored
        /\ result.final_score = max_scored
        /\ report.final_score = max_scored

C6_Witness ==
    pc = "done" /\ stop = "exhausted" /\ revisions >= 2
    /\ saved_text /= draft_text

\* the call of optimize failed
RevisionFailed == pc = "aborted" /\ revisions > cycles

\* C7: when the revision call fails the run aborts without further revision
\* or scoring, and the last scored text and ScoreResult are kept for
\* reporting
C7_FailureKeepsLastState ==
    RevisionFailed =>
        \/ saved_text /= Unset
        \/ report /= Unset
        \/ result /= Unset

\* C19: a revision is requested only when no revision is outstanding, and
\* the request passes the adopted text with the suggestions derived from a
\* ScoreResult of that text
C19_OneOutstandingCycle ==
    /\ revisions - cycles \in {0, 1}
    /\ pc \in {"loop", "phase5", "done"} => revisions = cycles
    /\ revisions > cycles =>
          /\ request.text = adopted_text
          /\ \E sr \in Score(adopted_text, competitor_data, weights) :
                /\ sr.total_score = current_score
                /\ request.suggestions = GetImprovementSuggestions(sr)

\* the third request of a run, for a text that is not the draft
C19_Witness ==
    /\ pc = "rescore" /\ revisions = 3 /\ cycles = 2
    /\ request.text /= draft_text
    /\ Len(request.suggestions) >= 2

\* C20: when the competitor analysis returns no data or no competitors the
\* run ends with a failure result: no draft, no score, no revision, no saved
\* output and no report
C20_NoCompetitorsEndsRun ==
    (pc /= "phase1"
     /\ (competitor_data = EmptyDict \/ competitor_data.competitors = 0)) =>
        /\ pc = "failed"
        /\ result = [success |-> FALSE]
        /\ draft_text = Unset /\ optimized_text = Unset
        /\ score_result = Unset
        /\ revisions = 0 /\ cycles = 0
        /\ saved_text = Unset /\ report = Unset

\* the analysis of a search without results
C20_Witness ==
    pc = "failed" /\ competitor_data = EmptyAnalysis /\ result.success = FALSE

\* C26: if the draft and every revision are markup-free and the target is
\* above 60, the loop never ends in the target-met state: every completed
\* run ended by stagnation or by exhausting max_iterations
C26_MarkupFreeNeverMeetsTarget ==
    (target_score > 6000 /\ ~markup_seen) =>
        /\ stop /= "target_met"
        /\ pc = "done" => stop \in {"stagnant", "exhausted"}

\* C26 as it holds: the same under the default weights
C26_MarkupFreeNeverMeetsTargetByDefault ==
    (target_score > 6000 /\ ~markup_seen /\ weights = DefaultWeights) =>
        /\ stop /= "target_met"
        /\ pc = "done" => stop \in {"stagnant", "exhausted"}

\* a completed run of markup-free texts under the default weights that was
\* revised up to a total of 60 and still missed a target of 61
C26_Witness ==
    /\ pc = "done"
    /\ ~markup_seen
    /\ weights = DefaultWeights
    /\ target_score = 6100
    /\ revisions >= 2
    /\ current_score = 6000
    /\ stop = "exhausted"

\* C27: in every terminal state of generate_content the returned final_score
\* equals the total_score of the returned score_breakdown and the final_score
\* of the report, and that ScoreResult is the score of the final document
C27_FinalScoreIsBreakdownTotal ==
    pc = "done" =>
        /\ result.final_score = result.score_breakdown.total_score
        /\ result.final_score = report.final_score
        /\ result.score_breakdown
              \in Score(saved_text, competitor_data, weights)

----------------------------------------------------------------------------
(* Properties of ContentScorer.score, checked under ScorerSpec *)

\* C8: each of the five category scores and the weighted total lie in
\* [0, 100]
C8_ScoresInRange ==
    pc = "scored" =>
        /\ \A i \in 1..5 :
              /\ score_result[Categories[i]].score >= 0
              /\ score_result[Categories[i]].score <= 100
        /\ score_result.total_score >= 0
        /\ score_result.total_score <= 10000

\* every category at its maximum, and a text below every maximum
C8_Witness ==
    /\ pc = "scored"
    /\ \A i \in 1..5 : score_result[Categories[i]].score = 100
    /\ score_result.total_score = 10000

C10_GradeOfReportedTotal ==
    pc = "scored" => score_result.grade = GetGrade(score_result.total_score * 10)

\* C14: scoring the empty text gives every criterion that depends on word or
\* sentence counts its minimum tier: density 10, related terms 10,
\* readability index 5, sentence length 3, no paragraph bonus, length 10,
\* no diversity points
C14_EmptyTextMinimumTiers ==
    (pc = "scored" /\ optimized_text = EmptyText) =>
        /\ score_result.keyword_optimization.score = 10 + 10
        /\ score_result.structure_readability.score
              = HeadingScore(0, 0, 0) + 5 + 3
        /\ score_result.content_quality.score
              = 10 + TopicScore(CommonTopics(competitor_data), 0)
        /\ \A i \in 1..Len(score_result.structure_readability.details) :
              score_result.structure_readability.details[i].marker /= Satisfied

\* the benchmark with the missing insights filled in: word_count for a
\* missing recommended word count, the empty list for missing topics
Completed(benchmark, word_count) ==
    LET insights == IF "insights" \in DOMAIN benchmark
                    THEN benchmark.insights ELSE EmptyDict
    IN  [insights |->
            [recommended_word_count |->
                IF "recommended_word_count" \in DOMAIN insights
                THEN insights.recommended_word_count ELSE word_count,
             common_topics |->
                IF "common_topics" \in DOMAIN insights
                THEN insights.common_topics ELSE << >>]]

FindingsBelow70(category, Keep(_)) ==
    IF score_result[category].percentage < 7000
    THEN SelectSeq(score_result[category].details, Keep)
    ELSE << >>

AnyFinding(detail) == TRUE

NotSatisfied(detail) == detail.marker /= Satisfied

H1Points ==
    score_result.keyword_optimization.score
    - DensityScore(optimized_text.density, TargetDensity(competitor_data))
    - (IF optimized_text.kw_in_first THEN 10 ELSE 0)
    - (IF optimized_text.h2_with_kw >= 2 THEN 10
       ELSE IF optimized_text.h2_with_kw = 1 THEN 5 ELSE 0)
    - LsiScore(optimized_text.lsi_count)

\* C22: the +10 H1 bonus of the keyword category is awarded exactly when the
\* document has a single H1 heading and that heading contains the keyword; a
\* document with several H1 headings does not receive it
C22_H1BonusOnlySingleH1 ==
    pc = "scored" =>
        H1Points = (IF optimized_text.h1_count = 1
                       /\ optimized_text.h1_with_kw = 1 THEN 10 ELSE 0)

\* C28: the keyword, structure, technical and engagement categories do not
\* depend on the benchmark: the score of the same text under any other
\* benchmark agrees with the returned one on these four categories
C28_BenchmarkOnlyInQuality ==
    pc = "scored" =>
        \A benchmark \in Benchmarks :
            \A other \in Score(optimized_text, benchmark, weights) :
                /\ other.keyword_optimization
                      = score_result.keyword_optimization
                /\ other.structure_readability
                      = score_result.structure_readability
                /\ other.technical_seo = score_result.technical_seo
                /\ other.engagement = score_result.engagement

\* a text scored under a benchmark, for which another benchmark with another
\* density average gives another content quality
C28_Witness ==
    /\ pc = "scored"
    /\ \E benchmark \in Benchmarks :
          /\ TargetDensity(benchmark) /= TargetDensity(competitor_data)
          /\ \E other \in Score(optimized_text, benchmark, weights) :
                other.content_quality /= score_result.content_quality

\* C25: a document in which no markup element is found has technical score
\* 0, structure score at most 40, engagement score at most 40 and keyword
\* score at most 80; under the default weights its total is at most 60
C25_MarkupFreeAtMost60 ==
    (pc = "scored" /\ MarkupFree(optimized_text)) =>
        /\ score_result.technical_seo.score = 0
        /\ score_result.structure_readability.score <= 40
        /\ score_result.engagement.score <= 40
        /\ score_result.keyword_optimization.score <= 80
        /\ weights = DefaultWeights => score_result.total_score <= 6000

\* a markup-free text that reaches every one of the bounds
C25_Witness ==
    /\ pc = "scored"
    /\ MarkupFree(optimized_text)
    /\ weights = DefaultWeights
    /\ score_result.structure_readability.score = 40
    /\ score_result.engagement.score = 40
    /\ score_result.keyword_optimization.score = 80
    /\ score_result.total_score = 6000

====
